---------------------------- MODULE Spec2Model ----------------------------
(***************************************************************************)
(* A model of the protein-annotation backend:                              *)
(*   - LabelPropagationService._label_propagation and                      *)
(*     _calculate_confidence_scores (label_propagation_service.py);        *)
(*   - GraphConstructionService (graph_service.py) and the graph build of  *)
(*     Neo4jService (neo4j_service.py) over the document and graph stores; *)
(*   - the annotation requests (routers/annotation.py) with the write-back *)
(*     of propagated labels to both stores, and the evaluation of the      *)
(*     propagation quality over larger graph stores;                       *)
(*   - the bulk import of DataImportService._batch_insert_proteins;        *)
(*   - two graph builds interleaved at their store calls;                  *)
(*   - _label_propagation stepped protein by protein.                      *)
(* Floating-point ratios (convergence_rate, threshold, jaccard_similarity) *)
(* are modelled as exact fractions [num, den] and compared by cross        *)
(* multiplication.                                                         *)
(***************************************************************************)
EXTENDS Integers, Sequences, FiniteSets, TLC

(***************************************************************************)
(* Bounds of the model.                                                    *)
(***************************************************************************)
\* max_iterations is drawn from 1..MaxIterations and from the value 10.
MaxIterations == 4

\* The document store holds at most MaxStoredProteins proteins.
MaxStoredProteins == 2

\* At most MaxRequests annotation requests are served.
MaxRequests == 1

\* A bulk import takes a list of at most MaxImportProteins proteins.
MaxImportProteins == 12

\* An evaluated graph store holds at most MaxEvalProteins seed-labelled
\* proteins.
MaxEvalProteins == 10

(***************************************************************************)
(* Universe of the model.                                                  *)
(***************************************************************************)
\* protein_id values, listed in their (string) order.
ProteinIds == <<"A", "B", "C">>

Proteins == {ProteinIds[i] : i \in 1..Len(ProteinIds)}

\* Position of a protein_id in the order of protein ids (Python's str order).
Rank(p) == CHOOSE i \in 1..Len(ProteinIds) : ProteinIds[i] = p

\* EC numbers / GO terms.
Labels == {"1.1.1.1", "2.2.2.2"}

\* Domain identifiers.
Domains == {"d1", "d2", "d3", "d4"}

\* Domain identifiers of the proteins of the document store.
StoreDomains == {"d1", "d2"}

\* Domain lists of a stored protein: one row of domains_collection per
\* element, in any order and with repetitions.
DomainLists ==
    {<< >>} \cup {<<d>> : d \in StoreDomains}
            \cup {<<d, e>> : d, e \in StoreDomains}

Range(s) == {s[i] : i \in 1..Len(s)}

\* set(list)
ToSet(s) == Range(s)

\* Some enumeration of a finite set (the iteration order of a dict or set).
RECURSIVE SetToSeq(_)
SetToSeq(S) ==
    IF S = {} THEN << >>
    ELSE LET x == CHOOSE y \in S : TRUE
         IN  <<x>> \o SetToSeq(S \ {x})

Min(a, b) == IF a <= b THEN a ELSE b

\* A ratio num/den with den > 0.
Frac(n, d) == [num |-> n, den |-> d]

\* f >= g for ratios with positive denominators.
FracGE(f, g) == f.num * g.den >= g.num * f.den

\* What get_all_proteins_for_graph returns for one protein.
ProteinRecords == [protein_id : Proteins, domains : DomainLists]

\* Contents of the document store: proteins in collection order, protein_id
\* unique (the unique index of proteins_collection).
DocStores ==
    {s \in UNION {[1..n -> ProteinRecords] : n \in 0..MaxStoredProteins} :
        \A i, j \in 1..Len(s) : i # j => s[i].protein_id # s[j].protein_id}

\* Values of min_similarity (Query ge=0, le=1), as ratios.
MinSimilarityChoices == {Frac(0, 1), Frac(1, 2), Frac(1, 1)}

\* Values of max_proteins (None is 0: both are falsy in `if limit:`).
MaxProteinsChoices == {0, 1}

\* Graph-store contents found at start-up: nodes left by an earlier run, with
\* an edge between every two of them.
StaleNodeSets == {{}, {"C"}, Proteins}

StaleNodes(S) == [p \in S |-> [domain_count |-> 1]]

StaleEdges(S) ==
    {[source |-> a, target |-> b, weight |-> Frac(1, 1),
      jaccard_similarity |-> Frac(1, 1), shared_domains |-> {"d3"},
      shared_domain_count |-> 1] :
        <<a, b>> \in {pr \in S \X S : Rank(pr[1]) < Rank(pr[2])}}

\* The value of `jaccard` before the call.
NotCalled == [error |-> "not called"]

NoBuild == [min_similarity |-> Frac(1, 10), max_proteins |-> 0,
            proteins_data |-> << >>, domain_index |-> << >>,
            edges |-> << >>, prior_others |-> FALSE]

\* Adjacency maps without self loops whose relation need not be symmetric.
DirectedGraphs ==
    {g \in [Proteins -> SUBSET Proteins] : \A p \in Proteins : p \notin g[p]}

\* Undirected graphs without self loops, as adjacency maps: what
\* get_proteins_for_label_propagation returns for the pattern
\* (p)-[:SIMILAR_TO]-(neighbor), turned into a dict by _build_graph.
Graphs ==
    {g \in [Proteins -> SUBSET Proteins] :
        \A p \in Proteins : p \notin g[p] /\ \A q \in g[p] : p \in g[q]}

\* Label assignments as produced by _extract_initial_labels.
LabelAssignments == [Proteins -> SUBSET Labels]

\* Values of max_iterations (LabelPropagationRequest: ge=1, le=1000).
MaxIterationsChoices == (1..MaxIterations) \cup {10}

\* Values of threshold (LabelPropagationRequest: ge=0.0001, le=1.0), as fractions.
ThresholdChoices ==
    {[num |-> 1, den |-> 100], [num |-> 1, den |-> 2], [num |-> 1, den |-> 1]}

NoResult == [final_labels |-> << >>, iterations |-> 0, converged |-> FALSE]

VARIABLES
    lp_pc,              \* position in the propagation run
    graph,              \* argument graph of _label_propagation
    initial_labels,     \* argument initial_labels
    max_iterations,     \* argument max_iterations
    threshold,          \* argument threshold, a fraction
    current_labels,     \* local current_labels
    iteration,          \* number of loop iterations executed so far
    changes_log,        \* history: `changes` of every iteration executed
    labels_log,         \* history: new_labels of every iteration executed
    result,             \* returned (labels, iterations, converged)
    confidence_scores,  \* result of _calculate_confidence_scores
    mongo_docs,         \* document store: proteins with their domain rows
    neo_nodes,          \* graph store: protein_id -> node attributes
    neo_edges,          \* graph store: SIMILAR_TO relationships
    min_similarity,     \* GraphConstructionService.min_similarity
    last_op,            \* history: the last operation on the graph store
    last_build,         \* history: arguments and locals of the last build, and
                        \* whether the store held nodes of other proteins
    set1,               \* argument set1 of calculate_jaccard_similarity
    set2,               \* argument set2
    jaccard,            \* its result, NotCalled before the call
    driver,             \* Neo4jService.driver and the MongoDB collections:
                        \* "None" after construction, "connected" after start-up
    store_graph,        \* graph store: protein_id -> SIMILAR_TO neighbours
    store_labels,       \* graph store: ec_numbers / go_terms of every node
    doc_labels,         \* document store: ec_numbers / go_terms per protein
    store_calls,        \* history: the store operations of the last request
    response,           \* the answer to the last annotation request
    served,             \* number of annotation requests served
    last_run,           \* history: the arguments of the propagation run by
                        \* the last request, NoRun if it ran none
    import_pc,          \* position in _batch_insert_proteins
    proteins,           \* argument proteins: the protein_id of every element
    batch_size,         \* argument batch_size
    batch_start,        \* loop variable i of the batch loop
    batch_pos,          \* position of the next protein within the batch
    inserted_count,     \* local inserted_count
    failed_count,       \* local failed_count
    failed_proteins,    \* local failed_proteins
    attempts,           \* history: every insert_protein call and its outcome
    import_result,      \* the returned tally
    builds,             \* the graph builds in flight: position, arguments and
                        \* locals of each
    overlapped,         \* history: a build took a step while another one was
                        \* between its first store call and its return
    returned_order,     \* history: the builds in the order of their return
    protein_order,      \* local proteins of _label_propagation: list(graph.keys())
    position,           \* number of proteins the current iteration has
                        \* processed
    new_labels_so_far,  \* local new_labels of the current iteration
    changes_so_far      \* local changes of the current iteration

lp_vars == <<lp_pc, graph, initial_labels, max_iterations, threshold,
             current_labels, iteration, changes_log, labels_log, result,
             confidence_scores>>

graph_vars == <<mongo_docs, neo_nodes, neo_edges, min_similarity, last_op,
                last_build>>

jaccard_vars == <<set1, set2, jaccard>>

prop_vars == <<driver, store_graph, store_labels, doc_labels, store_calls,
               response, served, last_run>>

import_vars == <<import_pc, proteins, batch_size, batch_start, batch_pos,
                 inserted_count, failed_count, failed_proteins, attempts,
                 import_result>>

\* The variables of the specifications of the annotation requests and of the
\* bulk import.
conc_vars == <<builds, overlapped, returned_order>>

step_vars == <<protein_order, position, new_labels_so_far, changes_so_far>>

\* The variables of the interleaved graph builds and of the propagation
\* stepped protein by protein.
more_vars == <<conc_vars, step_vars>>

\* The variables a graph build in flight leaves alone.
not_conc_vars == <<lp_vars, jaccard_vars, prop_vars, import_vars, step_vars>>

later_vars == <<prop_vars, import_vars, more_vars>>

base_vars == <<lp_vars, graph_vars, jaccard_vars>>

\* The variables an annotation request leaves alone.
not_prop_vars == <<base_vars, import_vars, more_vars>>

\* The variables a bulk import leaves alone.
not_import_vars == <<base_vars, prop_vars, more_vars>>

vars == <<lp_vars, graph_vars, jaccard_vars, later_vars>>

\* The propagation variables of a specification that runs no propagation.
LPIdle ==
    /\ lp_pc = "idle"
    /\ graph = << >>
    /\ initial_labels = << >>
    /\ max_iterations = 0
    /\ threshold = Frac(1, 100)
    /\ current_labels = << >>
    /\ iteration = 0
    /\ changes_log = << >>
    /\ labels_log = << >>
    /\ result = NoResult
    /\ confidence_scores = << >>

\* The stores of a specification that builds no graph.
GraphIdle ==
    /\ mongo_docs = << >>
    /\ neo_nodes = << >>
    /\ neo_edges = {}
    /\ min_similarity = Frac(1, 10)
    /\ last_op = "none"
    /\ last_build = NoBuild

\* The similarity variables of a specification that calls no similarity.
JaccardIdle ==
    /\ set1 = {}
    /\ set2 = {}
    /\ jaccard = NotCalled

\* The answer before any request.
NoResponse == [op |-> "none", attribute |-> "none", status_code |-> 0,
               error |-> "none", body |-> << >>]

\* The annotation variables of a specification that serves no request.
\* The arguments of a call of _label_propagation and the labels it returned.
Run(g, initial, max_it, th, final_labels) ==
    [graph |-> g, initial_labels |-> initial, max_iterations |-> max_it,
     threshold |-> th, final_labels |-> final_labels]

NoRun == Run(<< >>, << >>, 0, [num |-> 0, den |-> 1], << >>)

PropIdle ==
    /\ driver = "None"
    /\ store_graph = << >>
    /\ store_labels = [ec |-> << >>, go |-> << >>]
    /\ doc_labels = << >>
    /\ store_calls = << >>
    /\ response = NoResponse
    /\ served = 0
    /\ last_run = NoRun

\* The import variables of a specification that imports nothing.
ImportIdle ==
    /\ import_pc = "idle"
    /\ proteins = << >>
    /\ batch_size = 100
    /\ batch_start = 0
    /\ batch_pos = 0
    /\ inserted_count = 0
    /\ failed_count = 0
    /\ failed_proteins = << >>
    /\ attempts = << >>
    /\ import_result = << >>

\* The two build requests of the interleaved builds.
Builds == {1, 2}

IdleBuild == [pc |-> "idle", min_sim |-> [num |-> 1, den |-> 10],
              max_proteins |-> 0, proteins_data |-> << >>, k |-> 0]

ConcIdle ==
    /\ builds = [b \in Builds |-> IdleBuild]
    /\ overlapped = FALSE
    /\ returned_order = << >>

StepIdle ==
    /\ protein_order = << >>
    /\ position = 0
    /\ new_labels_so_far = << >>
    /\ changes_so_far = 0

MoreIdle == ConcIdle /\ StepIdle

LaterIdle == PropIdle /\ ImportIdle /\ MoreIdle

(***************************************************************************)
(* _label_propagation                                                      *)
(***************************************************************************)
\* Lines 109-114: the tally of the labels held by the neighbours of p; its
\* keys are the labels seen, its values the number of neighbours holding them.
NeighborLabels(g, cur, p) ==
    LET holders(l) == {q \in g[p] : q \in DOMAIN cur /\ cur[q] # {} /\ l \in cur[q]}
        seen == {l \in Labels : holders(l) # {}}
    IN  [l \in seen |-> Cardinality(holders(l))]

\* Lines 117-124: the labels of the tally sorted by decreasing count.
MostCommonLabels(nl) ==
    LET n == Cardinality(DOMAIN nl)
    IN  CHOOSE s \in [1..n -> DOMAIN nl] :
            /\ \A i, j \in 1..n : i # j => s[i] # s[j]
            /\ \A i, j \in 1..n : i < j => nl[s[i]] >= nl[s[j]]

\* A top-1 selection: only the first of the most common labels is kept.
TopLabelSet(g, cur, p) ==
    IF g[p] = {} THEN cur[p]
    ELSE LET nl == NeighborLabels(g, cur, p)
         IN  IF DOMAIN nl # {}
             THEN {MostCommonLabels(nl)[1]}
             ELSE cur[p]

\* A rule that empties the label set when no neighbour holds a label.
NewLabelSetClearing(g, cur, p) ==
    IF g[p] = {} THEN cur[p]
    ELSE LET nl == NeighborLabels(g, cur, p)
         IN  IF DOMAIN nl # {}
             THEN Range(MostCommonLabels(nl))
             ELSE {}

\* Lines 103-127: the new label set of protein p.
NewLabelSet(g, cur, p) ==
    IF g[p] = {} THEN cur[p]
    ELSE LET nl == NeighborLabels(g, cur, p)
         IN  IF DOMAIN nl # {}
             THEN Range(MostCommonLabels(nl))
             ELSE cur[p]

\* Lines 99-132: new_labels of one iteration over the snapshot cur.
NewLabels(g, cur) == [p \in DOMAIN g |-> NewLabelSet(g, cur, p)]

\* A count of the proteins whose label set changed in size.
ChangesInSize(g, cur) ==
    Cardinality({p \in DOMAIN g :
        Cardinality(cur[p]) # Cardinality(NewLabelSet(g, cur, p))})

\* Lines 129-130: the number of proteins whose label set differs.
Changes(g, cur) ==
    Cardinality({p \in DOMAIN g : cur[p] # NewLabelSet(g, cur, p)})

\* convergence_rate <= threshold.
RateAtMostThreshold(changes, total, th) == changes * th.den <= th.num * total

\* Lines 134, 139: convergence_rate = changes / len(proteins) < threshold.
RateBelowThreshold(changes, total, th) == changes * th.den < th.num * total

LPInit ==
    /\ lp_pc = "running"
    /\ graph \in Graphs
    /\ initial_labels \in LabelAssignments
    /\ max_iterations \in MaxIterationsChoices
    /\ threshold \in ThresholdChoices
    /\ current_labels = initial_labels
    /\ iteration = 0
    /\ changes_log = << >>
    /\ labels_log = << >>
    /\ result = NoResult
    /\ confidence_scores = << >>
    /\ GraphIdle
    /\ JaccardIdle
    /\ LaterIdle

\* A loop that tests the cap after the body instead of before it.
LPLoopGuardOffByOne == iteration <= max_iterations

\* Line 98: for iteration in range(max_iterations).
LPLoopGuard == iteration < max_iterations

\* Lines 98-147: one iteration of the loop, with its convergence test.
LPIterate ==
    /\ lp_pc = "running"
    /\ LPLoopGuard
    /\ LET new_labels == NewLabels(graph, current_labels)
           changes == Changes(graph, current_labels)
       IN  /\ changes_log' = Append(changes_log, changes)
           /\ labels_log' = Append(labels_log, new_labels)
           /\ iteration' = iteration + 1
           /\ IF RateBelowThreshold(changes, Cardinality(DOMAIN graph), threshold)
              THEN /\ lp_pc' = "done"
                   /\ result' = [final_labels |-> new_labels,
                                 iterations |-> iteration + 1,
                                 converged |-> TRUE]
                   /\ UNCHANGED current_labels
              ELSE /\ current_labels' = new_labels
                   /\ UNCHANGED <<lp_pc, result>>
    /\ UNCHANGED <<graph, initial_labels, max_iterations, threshold,
                   confidence_scores, graph_vars, jaccard_vars, later_vars>>

\* Lines 149-154: the loop is exhausted without convergence.
LPReturnMax ==
    /\ lp_pc = "running"
    /\ ~LPLoopGuard
    /\ lp_pc' = "done"
    /\ result' = [final_labels |-> current_labels,
                  iterations |-> max_iterations,
                  converged |-> FALSE]
    /\ UNCHANGED <<graph, initial_labels, max_iterations, threshold,
                   current_labels, iteration, changes_log, labels_log,
                   confidence_scores, graph_vars, jaccard_vars, later_vars>>

(***************************************************************************)
(* _calculate_confidence_scores                                            *)
(***************************************************************************)
\* A scorer that looks at the final labels where it should look at the seeds.
ConfidenceIgnoringSeeds(final, initial, p) ==
    IF final[p] = {} THEN "0.0"
    ELSE IF p \in DOMAIN final /\ final[p] # {} THEN "1.0" ELSE "0.5"

\* Lines 163-170: the score of one protein of final_labels.
Confidence(final, initial, p) ==
    IF final[p] = {} THEN "0.0"
    ELSE IF p \in DOMAIN initial /\ initial[p] # {} THEN "1.0" ELSE "0.5"

\* Lines 156-172.
CalculateConfidenceScores(final, initial) ==
    [p \in DOMAIN final |-> Confidence(final, initial, p)]

\* propagate_labels lines 42-44: the scores of the returned assignment.
LPScore ==
    /\ lp_pc = "done"
    /\ lp_pc' = "scored"
    /\ confidence_scores' =
           CalculateConfidenceScores(result.final_labels, initial_labels)
    /\ UNCHANGED <<graph, initial_labels, max_iterations, threshold,
                   current_labels, iteration, changes_log, labels_log, result,
                   graph_vars, jaccard_vars, later_vars>>

LPNext == LPIterate \/ LPReturnMax \/ LPScore

LPSpec == LPInit /\ [][LPNext]_vars

(***************************************************************************)
(* GraphConstructionService                                                *)
(***************************************************************************)
\* The outcome of a division by zero.
ZeroDivisionError == [error |-> "ZeroDivisionError"]

\* ZeroDivisionError when the divisor is 0, the ratio otherwise.
Divide(n, d) == IF d = 0 THEN ZeroDivisionError ELSE Frac(n, d)

\* A similarity that divides by the sum of the sizes, not by the union's.
JaccardOverSizeSum(s1, s2) ==
    IF s1 = {} \/ s2 = {} THEN Frac(0, 1)
    ELSE Divide(Cardinality(s1 \cap s2), Cardinality(s1) + Cardinality(s2))

\* calculate_jaccard_similarity, lines 17-25.
CalculateJaccardSimilarity(s1, s2) ==
    IF s1 = {} \/ s2 = {} THEN Frac(0, 1)
    ELSE LET intersection == s1 \cap s2
             union == s1 \cup s2
         IN  IF union # {}
             THEN Divide(Cardinality(intersection), Cardinality(union))
             ELSE Frac(0, 1)

\* get_all_proteins_for_graph: the collection, cut to `limit` when it is set.
GetAllProteinsForGraph(docs, limit) ==
    IF limit # 0 THEN SubSeq(docs, 1, Min(limit, Len(docs))) ELSE docs

\* A bucket with one entry per domain row of a protein.
RECURSIVE BucketOfRows(_, _)
BucketOfRows(proteins_data, d) ==
    IF proteins_data = << >> THEN << >>
    ELSE LET is_d(x) == x = d
             rows == SelectSeq(Head(proteins_data).domains, is_d)
         IN  [i \in 1..Len(rows) |-> Head(proteins_data).protein_id]
                 \o BucketOfRows(Tail(proteins_data), d)

\* The protein ids of proteins_data whose domain set holds d, in list order.
Bucket(proteins_data, d) ==
    LET holds(r) == d \in ToSet(r.domains)
        kept == SelectSeq(proteins_data, holds)
    IN  [i \in 1..Len(kept) |-> kept[i].protein_id]

\* _build_domain_index, lines 50-63: domain -> list of protein ids.
BuildDomainIndex(proteins_data) ==
    LET seen == UNION {ToSet(proteins_data[i].domains) :
                          i \in 1..Len(proteins_data)}
    IN  [d \in seen |-> Bucket(proteins_data, d)]

\* A pair key that keeps the order of the bucket.
UnsortedPair(a, b) == <<a, b>>

\* Line 84: tuple(sorted([protein1, protein2])).
SortedPair(a, b) == IF Rank(a) <= Rank(b) THEN <<a, b>> ELSE <<b, a>>

\* An accumulator that skips the buckets of exactly two proteins.
ProteinPairsOfLargeBuckets(domain_index) ==
    LET hits == {<<d, i, j>> \in
                    (DOMAIN domain_index) \X (1..Len(ProteinIds)) \X (1..Len(ProteinIds)) :
                        /\ Len(domain_index[d]) > 2
                        /\ i < j
                        /\ j <= Len(domain_index[d])}
        key(h) == SortedPair(domain_index[h[1]][h[2]], domain_index[h[1]][h[3]])
        keys == {key(h) : h \in hits}
    IN  [k \in keys |->
            [shared_domains |-> {h[1] : h \in {x \in hits : key(x) = k}},
             shared_count |-> Cardinality({x \in hits : key(x) = k})]]

\* Lines 73-87: the accumulator protein_pairs, pair key -> shared domains and
\* the number of times the pair was met.
ProteinPairs(domain_index) ==
    LET hits == {<<d, i, j>> \in
                    (DOMAIN domain_index) \X (1..Len(ProteinIds)) \X (1..Len(ProteinIds)) :
                        /\ Len(domain_index[d]) >= 2
                        /\ i < j
                        /\ j <= Len(domain_index[d])}
        key(h) == SortedPair(domain_index[h[1]][h[2]], domain_index[h[1]][h[3]])
        keys == {key(h) : h \in hits}
    IN  [k \in keys |->
            [shared_domains |-> {h[1] : h \in {x \in hits : key(x) = k}},
             shared_count |-> Cardinality({x \in hits : key(x) = k})]]

\* A lookup that keeps only the first domain row of every protein.
ProteinDomainsOfFirstRow(proteins_data) ==
    [p \in {proteins_data[i].protein_id : i \in 1..Len(proteins_data)} |->
        UNION {IF proteins_data[i].domains = << >> THEN {}
               ELSE {proteins_data[i].domains[1]} :
                   i \in {k \in 1..Len(proteins_data) :
                              proteins_data[k].protein_id = p}}]

\* Lines 69-71: protein_id -> set of domains (a later entry overwrites an
\* earlier one of the same id).
ProteinDomains(proteins_data) ==
    LET ids == {proteins_data[i].protein_id : i \in 1..Len(proteins_data)}
        last(p) == CHOOSE i \in 1..Len(proteins_data) :
                      /\ proteins_data[i].protein_id = p
                      /\ \A j \in 1..Len(proteins_data) :
                            proteins_data[j].protein_id = p => j <= i
    IN  [p \in ids |-> ToSet(proteins_data[last(p)].domains)]

\* Lines 89-114: the edge list, one candidate per key of protein_pairs.
ComputeSimilarities(proteins_data, domain_index, min_sim) ==
    LET protein_domains == ProteinDomains(proteins_data)
        protein_pairs == ProteinPairs(domain_index)
        keys == SetToSeq(DOMAIN protein_pairs)
        union_domains(k) == protein_domains[k[1]] \cup protein_domains[k[2]]
        jaccard_similarity(k) ==
            Divide(Cardinality(protein_pairs[k].shared_domains),
                   Cardinality(union_domains(k)))
        kept(k) == /\ union_domains(k) # {}
                   /\ FracGE(jaccard_similarity(k), min_sim)
        edge(k) == [source_protein_id |-> k[1],
                    target_protein_id |-> k[2],
                    weight |-> jaccard_similarity(k),
                    jaccard_similarity |-> jaccard_similarity(k),
                    shared_domains |-> protein_pairs[k].shared_domains,
                    shared_domain_count |->
                        Cardinality(protein_pairs[k].shared_domains)]
        kept_keys == SelectSeq(keys, kept)
    IN  [i \in 1..Len(kept_keys) |-> edge(kept_keys[i])]

(***************************************************************************)
(* Neo4jService                                                            *)
(***************************************************************************)
\* A build that leaves the nodes of the store in place.
KeepNodes(nodes) == nodes

\* clear_database, lines 43-49: MATCH (n) DETACH DELETE n, on the nodes.
ClearedNodes(nodes) == << >>

\* A clear that leaves the relationships of the store in place.
KeepEdges(edges) == edges

\* clear_database on the relationships.
ClearedEdges(edges) == {}

\* Lines 106-132: MERGE one node per protein_id and SET its attributes.
MergeNodes(nodes, proteins_data) ==
    LET ids == {proteins_data[i].protein_id : i \in 1..Len(proteins_data)}
        last(p) == CHOOSE i \in 1..Len(proteins_data) :
                      /\ proteins_data[i].protein_id = p
                      /\ \A j \in 1..Len(proteins_data) :
                            proteins_data[j].protein_id = p => j <= i
    IN  [p \in (DOMAIN nodes) \cup ids |->
            IF p \in ids
            THEN [domain_count |-> Len(proteins_data[last(p)].domains)]
            ELSE nodes[p]]

\* create_similarity_edge, lines 71-93: both nodes are matched, the
\* relationship between them is merged whatever its direction, and its
\* attributes are set.
CreateSimilarityEdge(nodes, edges, source_id, target_id, edge_data) ==
    IF source_id \notin DOMAIN nodes \/ target_id \notin DOMAIN nodes
    THEN edges
    ELSE LET between == {e \in edges :
                            {e.source, e.target} = {source_id, target_id}}
             set(e) == [source |-> e.source, target |-> e.target,
                        weight |-> edge_data.weight,
                        jaccard_similarity |-> edge_data.jaccard_similarity,
                        shared_domains |-> edge_data.shared_domains,
                        shared_domain_count |-> edge_data.shared_domain_count]
         IN  IF between # {}
             THEN (edges \ between) \cup {set(e) : e \in between}
             ELSE edges \cup {set([source |-> source_id, target |-> target_id])}

\* A test that never looks at the intersection.
EdgeWantedWithoutIntersectionTest(domains1, domains2, min_sim) ==
    /\ domains1 # {} /\ domains2 # {}
    /\ FracGE(Divide(Cardinality(domains1 \cap domains2),
                     Cardinality(domains1 \cup domains2)), min_sim)

\* Lines 141-152: whether the pair gets an edge.
EdgeWanted(domains1, domains2, min_sim) ==
    /\ ~(domains1 = {} \/ domains2 = {})
    /\ domains1 \cap domains2 # {}
    /\ FracGE(Divide(Cardinality(domains1 \cap domains2),
                     Cardinality(domains1 \cup domains2)), min_sim)

\* Lines 135-138: the index pairs (i, j), i < j, in the order of the loops.
PairSeq(n) ==
    LET prs == {pr \in (1..n) \X (1..n) : pr[1] < pr[2]}
        before(a, b) == a[1] < b[1] \/ (a[1] = b[1] /\ a[2] < b[2])
    IN  CHOOSE s \in [1..Cardinality(prs) -> prs] :
            \A i, j \in 1..Cardinality(prs) : i < j => before(s[i], s[j])

\* Lines 134-163: the relationships after the first k pairs of the loops.
RECURSIVE WriteEdges(_, _, _, _, _)
WriteEdges(nodes, edges, proteins_data, min_sim, k) ==
    IF k = 0 THEN edges
    ELSE LET sofar == WriteEdges(nodes, edges, proteins_data, min_sim, k - 1)
             pr == PairSeq(Len(proteins_data))[k]
             protein1 == proteins_data[pr[1]]
             protein2 == proteins_data[pr[2]]
             domains1 == ToSet(protein1.domains)
             domains2 == ToSet(protein2.domains)
             intersection == domains1 \cap domains2
             jaccard_similarity ==
                 Divide(Cardinality(intersection),
                        Cardinality(domains1 \cup domains2))
         IN  IF EdgeWanted(domains1, domains2, min_sim)
             THEN CreateSimilarityEdge(nodes, sofar,
                      protein1.protein_id, protein2.protein_id,
                      [weight |-> jaccard_similarity,
                       jaccard_similarity |-> jaccard_similarity,
                       shared_domains |-> intersection,
                       shared_domain_count |-> Cardinality(intersection)])
             ELSE sofar

\* Neo4jService.build_protein_graph, lines 95-167: the nodes it leaves.
Neo4jBuildNodes(nodes, proteins_data) ==
    MergeNodes(ClearedNodes(nodes), proteins_data)

\* Neo4jService.build_protein_graph, lines 95-167: the relationships it leaves.
Neo4jBuildEdges(nodes, edges, proteins_data, min_sim) ==
    LET n == Len(proteins_data)
    IN  WriteEdges(Neo4jBuildNodes(nodes, proteins_data), ClearedEdges(edges),
                   proteins_data, min_sim, (n * (n - 1)) \div 2)

\* The stores are separate servers whose content outlives the service
\* (main.py, lines 14-24, only connects): a build may meet any earlier graph.
GraphInit ==
    /\ mongo_docs \in DocStores
    /\ \E S \in StaleNodeSets :
          /\ neo_nodes = StaleNodes(S)
          /\ neo_edges = StaleEdges(S)
    /\ min_similarity = Frac(1, 10)
    /\ last_op = "none"
    /\ last_build = NoBuild
    /\ LPIdle
    /\ JaccardIdle
    /\ LaterIdle

\* GraphConstructionService.build_protein_graph, lines 27-48.
BuildProteinGraph(min_sim, max_proteins) ==
    LET proteins_data == GetAllProteinsForGraph(mongo_docs, max_proteins)
        domain_index == BuildDomainIndex(proteins_data)
        edges == ComputeSimilarities(proteins_data, domain_index, min_sim)
    IN  /\ min_similarity' = min_sim
        /\ last_op' = "build"
        /\ IF proteins_data = << >>
           THEN /\ last_build' = [min_similarity |-> min_sim,
                                  max_proteins |-> max_proteins,
                                  proteins_data |-> proteins_data,
                                  domain_index |-> << >>,
                                  edges |-> << >>,
                                  prior_others |->
                                      \E p \in DOMAIN neo_nodes :
                                          \A i \in 1..Len(proteins_data) :
                                              proteins_data[i].protein_id # p]
                /\ UNCHANGED <<neo_nodes, neo_edges>>
           ELSE /\ last_build' = [min_similarity |-> min_sim,
                                  max_proteins |-> max_proteins,
                                  proteins_data |-> proteins_data,
                                  domain_index |-> domain_index,
                                  edges |-> edges,
                                  prior_others |->
                                      \E p \in DOMAIN neo_nodes :
                                          \A i \in 1..Len(proteins_data) :
                                              proteins_data[i].protein_id # p]
                /\ neo_nodes' = Neo4jBuildNodes(neo_nodes, proteins_data)
                /\ neo_edges' = Neo4jBuildEdges(neo_nodes, neo_edges,
                                                proteins_data, min_sim)
        /\ UNCHANGED <<mongo_docs, lp_vars, jaccard_vars, later_vars>>

\* routers/graph.py clear_graph, lines 80-88.
ClearGraph ==
    /\ neo_nodes' = ClearedNodes(neo_nodes)
    /\ neo_edges' = ClearedEdges(neo_edges)
    /\ last_op' = "clear"
    /\ UNCHANGED <<mongo_docs, min_similarity, last_build, lp_vars, jaccard_vars, later_vars>>

GraphBuild ==
    \E min_sim \in MinSimilarityChoices, max_proteins \in MaxProteinsChoices :
        BuildProteinGraph(min_sim, max_proteins)

GraphNext == GraphBuild \/ ClearGraph

GraphSpec == GraphInit /\ [][GraphNext]_vars

(***************************************************************************)
(* calculate_jaccard_similarity on arbitrary domain sets                   *)
(***************************************************************************)
JaccardInit ==
    /\ set1 \in SUBSET Domains
    /\ set2 \in SUBSET Domains
    /\ jaccard = NotCalled
    /\ LPIdle
    /\ GraphIdle
    /\ LaterIdle

JaccardCall ==
    /\ jaccard = NotCalled
    /\ jaccard' = CalculateJaccardSimilarity(set1, set2)
    /\ UNCHANGED <<set1, set2, lp_vars, graph_vars, later_vars>>

JaccardNext == JaccardCall

JaccardSpec == JaccardInit /\ [][JaccardNext]_vars

(***************************************************************************)
(* Properties of _label_propagation and _calculate_confidence_scores       *)
(***************************************************************************)
LPFinished == lp_pc \in {"done", "scored"}

\* The snapshot iteration i read: the seeds, or the output of iteration i-1.
Before(i) == IF i = 1 THEN [p \in Proteins |-> initial_labels[p]]
             ELSE labels_log[i - 1]

\* The proteins whose label set iteration i changed.
ChangedIn(i) == {p \in Proteins : Before(i)[p] # labels_log[i][p]}

\* The convergence_rate of iteration i is strictly below the threshold.
Below(i) == changes_log[i] * threshold.den < threshold.num * Cardinality(Proteins)

\* Steps left before the run has returned and been scored.
LPRank ==
    CASE lp_pc = "running" -> (max_iterations - iteration) + 2
      [] lp_pc = "done" -> 1
      [] OTHER -> 0

\* C1: _label_propagation terminates after executing at most max_iterations
\* iterations: the number of iterations executed never exceeds the cap, a
\* running propagation can always take its next step, and every step brings
\* the run strictly closer to its end, also when the label sets oscillate.
C1_TerminatesWithinCap ==
    /\ [](/\ iteration <= max_iterations
          /\ Len(changes_log) = iteration
          /\ Len(labels_log) = iteration
          /\ (lp_pc = "running" => ENABLED LPNext)
          /\ (LPFinished => result.iterations <= max_iterations))
    /\ [][LPRank' < LPRank]_vars

\* A run that used up max_iterations = 10 while the labels kept oscillating.
C1_Witness ==
    /\ lp_pc = "done"
    /\ max_iterations = 10
    /\ iteration = 10
    /\ ~result.converged
    /\ labels_log[9] # labels_log[10]
    /\ labels_log[8] = labels_log[10]

\* C2: converged=true with iterations_completed = k exactly when k is the
\* first iteration whose convergence_rate is strictly below the threshold
\* (1 <= k <= max_iterations); converged=false with iterations_completed =
\* max_iterations exactly when no iteration 1..max_iterations was below it.
C2_ResultFlags ==
    /\ lp_pc = "running" => \A i \in 1..Len(changes_log) : ~Below(i)
    /\ LPFinished =>
         /\ result.converged =>
              /\ result.iterations \in 1..max_iterations
              /\ result.iterations = Len(changes_log)
              /\ Below(result.iterations)
              /\ \A i \in 1..(result.iterations - 1) : ~Below(i)
         /\ ~result.converged =>
              /\ result.iterations = max_iterations
              /\ Len(changes_log) = max_iterations
              /\ \A i \in 1..max_iterations : ~Below(i)

\* A run that converged at a later iteration than the first and before the
\* cap, with a non-zero rate in its last iteration.
C2_Witness ==
    /\ lp_pc = "done"
    /\ result.converged
    /\ result.iterations >= 2
    /\ result.iterations < max_iterations
    /\ changes_log[result.iterations] > 0

\* C3: for every protein and every iteration, the label set after the
\* iteration is a superset of (or equal to) the label set before it.
C3_MonotonicGrowth ==
    \A i \in 1..Len(labels_log) :
        \A p \in Proteins : Before(i)[p] \subseteq labels_log[i][p]

\* Every protein's label set equals the union of its neighbours' label sets.
IsFixedPoint(cur) ==
    \A p \in Proteins : cur[p] = UNION {cur[q] : q \in graph[p]}

\* C4: whenever every protein's label set equals the union of its
\* neighbours' label sets, one more iteration counts zero changes and leaves
\* every label set as it was.
C4_FixedPoint ==
    \A i \in 1..Len(labels_log) :
        IsFixedPoint(Before(i)) =>
            /\ changes_log[i] = 0
            /\ labels_log[i] = Before(i)

\* An iteration was run on a fixed point in which labelled proteins have
\* neighbours.
C4_Witness ==
    \E i \in 1..Len(labels_log) :
        /\ IsFixedPoint(Before(i))
        /\ \E p \in Proteins : graph[p] # {} /\ Cardinality(Before(i)[p]) = 2

\* Scenario B: the chain A-B-C, seeds A={1.1.1.1}, B={}, C={2.2.2.2},
\* max_iterations=10, threshold=0.01.
ScenarioB ==
    /\ graph = [p \in Proteins |->
                   IF p = "B" THEN {"A", "C"} ELSE {"B"}]
    /\ initial_labels = [p \in Proteins |->
                   IF p = "A" THEN {"1.1.1.1"}
                   ELSE IF p = "C" THEN {"2.2.2.2"} ELSE {}]
    /\ max_iterations = 10
    /\ threshold = [num |-> 1, den |-> 100]

\* C5: on Scenario B propagation performs exactly 3 iterations with 1, 2 and
\* 0 changed proteins (B in iteration 1; A and C in iteration 2), returns
\* converged=true, every protein ends with {1.1.1.1, 2.2.2.2}, and the
\* confidence scores are A=1.0, C=1.0, B=0.5.
C5_ScenarioB ==
    ScenarioB =>
        /\ iteration <= 3
        /\ lp_pc = "running" => iteration < 3
        /\ iteration >= 1 => changes_log[1] = 1 /\ ChangedIn(1) = {"B"}
        /\ iteration >= 2 => changes_log[2] = 2 /\ ChangedIn(2) = {"A", "C"}
        /\ iteration >= 3 => changes_log[3] = 0 /\ ChangedIn(3) = {}
        /\ LPFinished =>
             /\ result.iterations = 3
             /\ result.converged
             /\ result.final_labels = [p \in Proteins |-> {"1.1.1.1", "2.2.2.2"}]
        /\ lp_pc = "scored" =>
             confidence_scores = [p \in Proteins |->
                                     IF p = "B" THEN "0.5" ELSE "1.0"]

\* Scenario B has run to its end and has been scored.
C5_Witness == ScenarioB /\ lp_pc = "scored" /\ iteration = 3

\* C6: the scorer gives every protein of the final assignment exactly one of
\* three values: 0.0 iff its final label set is empty; 1.0 iff its final set
\* is non-empty and its seed set was non-empty; 0.5 iff its final set is
\* non-empty and its seed set was empty.
C6_ConfidenceValues ==
    lp_pc = "scored" =>
        /\ DOMAIN confidence_scores = DOMAIN result.final_labels
        /\ \A p \in DOMAIN result.final_labels :
             LET c == confidence_scores[p]
                 final == result.final_labels[p]
                 seed == initial_labels[p]
             IN  /\ c \in {"0.0", "0.5", "1.0"}
                 /\ (c = "0.0") <=> (final = {})
                 /\ (c = "1.0") <=> (final # {} /\ seed # {})
                 /\ (c = "0.5") <=> (final # {} /\ seed = {})

\* A scored run in which all three confidence values occur.
C6_Witness ==
    /\ lp_pc = "scored"
    /\ \A c \in {"0.0", "0.5", "1.0"} :
         \E p \in Proteins : confidence_scores[p] = c

(***************************************************************************)
(* Properties of the graph build                                           *)
(***************************************************************************)
\* The domain set of the stored protein p (empty when p is not stored).
DocDomains(p) ==
    UNION {ToSet(mongo_docs[i].domains) :
              i \in {k \in 1..Len(mongo_docs) : mongo_docs[k].protein_id = p}}

BuildReturned == last_op = "build"

\* The build wrote to the graph store (it did not return early).
BuildWrote == BuildReturned /\ last_build.proteins_data # << >>

ComputedEdges == {last_build.edges[i] : i \in 1..Len(last_build.edges)}

\* C7: no similarity edge joins two proteins whose domain sets have an empty
\* intersection, for every min_similarity including 0, in the edge list
\* computed by _compute_similarities and among the edges the build writes to
\* the graph store; a protein with an empty domain set acquires no edges.
C7_NoEdgeWithoutSharedDomain ==
    /\ BuildReturned =>
         \A e \in ComputedEdges :
             DocDomains(e.source_protein_id) \cap DocDomains(e.target_protein_id) # {}
    /\ BuildWrote =>
         \A e \in neo_edges :
             DocDomains(e.source) \cap DocDomains(e.target) # {}

\* A build with min_similarity = 0 over two proteins with non-empty disjoint
\* domain sets.
C7_Witness ==
    /\ BuildWrote
    /\ last_build.min_similarity = Frac(0, 1)
    /\ Len(last_build.proteins_data) = 2
    /\ ToSet(last_build.proteins_data[1].domains) # {}
    /\ ToSet(last_build.proteins_data[2].domains) # {}
    /\ ToSet(last_build.proteins_data[1].domains)
           \cap ToSet(last_build.proteins_data[2].domains) = {}
    /\ neo_edges = {}
    /\ last_build.edges = << >>

\* C8: the computed edge list holds at most one edge per unordered pair of
\* proteins, every edge has its endpoints in canonical order
\* protein_a < protein_b, and no edge joins a protein to itself.
C8_EdgesDeduplicated ==
    BuildReturned =>
        /\ \A i \in 1..Len(last_build.edges) :
             Rank(last_build.edges[i].source_protein_id)
                 < Rank(last_build.edges[i].target_protein_id)
        /\ \A i, j \in 1..Len(last_build.edges) :
             i # j =>
                 {last_build.edges[i].source_protein_id,
                  last_build.edges[i].target_protein_id}
                 # {last_build.edges[j].source_protein_id,
                    last_build.edges[j].target_protein_id}

\* A build over two proteins stored in decreasing order of protein_id that
\* share two domains.
C8_Witness ==
    /\ BuildReturned
    /\ Len(last_build.proteins_data) = 2
    /\ Rank(last_build.proteins_data[1].protein_id)
           > Rank(last_build.proteins_data[2].protein_id)
    /\ Len(last_build.edges) = 1
    /\ last_build.edges[1].shared_domain_count = 2

\* An edge as an unordered pair with its attributes.
EdgeView(a, b, e) ==
    [pair |-> {a, b}, weight |-> e.weight,
     jaccard_similarity |-> e.jaccard_similarity,
     shared_domains |-> e.shared_domains,
     shared_domain_count |-> e.shared_domain_count]

\* The graph store holds one node per input protein of the last build and
\* exactly the edges computed for that input.
StoreIsLastBuild ==
    /\ DOMAIN neo_nodes =
           {last_build.proteins_data[i].protein_id :
               i \in 1..Len(last_build.proteins_data)}
    /\ \A i \in 1..Len(last_build.proteins_data) :
           neo_nodes[last_build.proteins_data[i].protein_id].domain_count
               = Len(last_build.proteins_data[i].domains)
    /\ {EdgeView(e.source, e.target, e) : e \in neo_edges}
           = {EdgeView(e.source_protein_id, e.target_protein_id, e) :
                 e \in ComputedEdges}
    /\ Cardinality(neo_edges) = Len(last_build.edges)

C10_JaccardBounds ==
    jaccard # NotCalled =>
        /\ jaccard # ZeroDivisionError
        /\ jaccard.den > 0
        /\ 0 <= jaccard.num
        /\ jaccard.num <= jaccard.den
        /\ (set1 = set2 /\ set1 # {}) => jaccard.num = jaccard.den
        /\ (set1 = {} \/ set2 = {}) => jaccard.num = 0
        /\ (set1 # {} /\ set2 # {}) =>
               jaccard.num * Cardinality(set1 \cup set2)
                   = Cardinality(set1 \cap set2) * jaccard.den

\* The similarity of a set of several domains with itself was computed.
C10_Witness ==
    /\ jaccard # NotCalled
    /\ set1 = set2
    /\ Cardinality(set1) >= 2

(***************************************************************************)
(* Annotation requests: propagate, evaluate, statistics                    *)
(***************************************************************************)
\* Attributes of a request: the two supported kinds and an unsupported one.
Attributes == {"ec", "go", "kegg"}

\* Messages of the exceptions raised on the way.
DriverError == "Neo4j driver not initialized"

AttributeError == "Attribute must be 'ec' or 'go'"

NoProteinsError == "No proteins found for label propagation"

NoSeedsError == "No initially annotated proteins found for evaluation"

\* The ValueError of random.sample.
SampleError == "Sample larger than population or is negative"

\* The exception of a store operation that fails (connection lost, ...).
WriteError == "store operation failed"

\* An attribute test that lets every attribute through to the go_terms query.
AnyAttribute(attribute) == TRUE

\* neo4j_service.py lines 343-358 and 382-395: the if / elif / else on the
\* attribute raises for anything but "ec" and "go".
SupportedAttribute(attribute) == attribute \in {"ec", "go"}

\* The node property read or written for an attribute.
QueryProperty(attribute) == IF attribute = "ec" THEN "ec" ELSE "go"

\* annotation.py lines 26 and 46: attribute not in ["ec", "go"].
RouterAccepts(attribute) == attribute \in {"ec", "go"}

\* Two of the orders in which a query can return its rows: by increasing and
\* by decreasing protein_id.
Orders(S) ==
    LET n == Cardinality(S)
        up == CHOOSE s \in [1..n -> S] :
                  \A i, j \in 1..n : i < j => Rank(s[i]) < Rank(s[j])
    IN  {up, [i \in 1..n |-> up[n + 1 - i]]}

\* A store operation as recorded in store_calls.
StoreCall(store, op, protein_id, outcome) ==
    [store |-> store, op |-> op, protein_id |-> protein_id,
     outcome |-> outcome]

\* Neo4jService.get_proteins_for_label_propagation, lines 336-373, with the
\* rows returned in the given order.
GetProteinsForLabelPropagation(attribute, order) ==
    IF driver = "None"
    THEN [error |-> DriverError, calls |-> << >>, proteins_data |-> << >>]
    ELSE IF ~SupportedAttribute(attribute)
    THEN [error |-> AttributeError, calls |-> << >>, proteins_data |-> << >>]
    ELSE [error |-> "none",
          calls |-> <<StoreCall("neo4j", "run", "all", "ok")>>,
          proteins_data |->
              [i \in 1..Len(order) |->
                  [protein_id |-> order[i],
                   labels |-> store_labels[QueryProperty(attribute)][order[i]],
                   neighbors |-> store_graph[order[i]]]]]

\* _build_graph, lines 63-72.
BuildGraph(proteins_data) ==
    [p \in {proteins_data[i].protein_id : i \in 1..Len(proteins_data)} |->
        proteins_data[CHOOSE i \in 1..Len(proteins_data) :
            proteins_data[i].protein_id = p /\
            \A j \in (i + 1)..Len(proteins_data) :
                proteins_data[j].protein_id # p].neighbors]

\* _extract_initial_labels, lines 74-85.
ExtractInitialLabels(proteins_data) ==
    [p \in {proteins_data[i].protein_id : i \in 1..Len(proteins_data)} |->
        proteins_data[CHOOSE i \in 1..Len(proteins_data) :
            proteins_data[i].protein_id = p /\
            \A j \in (i + 1)..Len(proteins_data) :
                proteins_data[j].protein_id # p].labels]

\* Lines 98-147: the iterations it+1 .. stop of the loop. The loop either
\* returns inside the block (convergence) or leaves current_labels for the next
\* iteration.
RECURSIVE RunIterations(_, _, _, _, _)
RunIterations(g, cur, it, stop, th) ==
    IF it >= stop
    THEN [returned |-> FALSE, current_labels |-> cur, iteration |-> it]
    ELSE IF DOMAIN g = {}
    THEN [returned |-> TRUE, result |-> ZeroDivisionError]
    ELSE LET changes == Changes(g, cur)
             rest(new_labels) ==
                 IF RateBelowThreshold(changes, Cardinality(DOMAIN g), th)
                 THEN [returned |-> TRUE,
                       result |-> [final_labels |-> new_labels,
                                   iterations |-> it + 1,
                                   converged |-> TRUE]]
                 ELSE RunIterations(g, new_labels, it + 1, stop, th)
         IN  CHOOSE r \in {rest(new_labels) :
                               new_labels \in {NewLabels(g, cur)}} : TRUE

\* _label_propagation, lines 87-154, from iteration `it` on: the returned
\* (labels, iterations, converged). The loop is evaluated ten iterations at a
\* time.
RECURSIVE RunLabelPropagation(_, _, _, _, _)
RunLabelPropagation(g, cur, it, max_it, th) ==
    IF it >= max_it
    THEN [final_labels |-> cur, iterations |-> max_it, converged |-> FALSE]
    ELSE LET rest(block) ==
                 IF block.returned THEN block.result
                 ELSE RunLabelPropagation(g, block.current_labels,
                                          block.iteration, max_it, th)
         IN  CHOOSE r \in {rest(block) :
                 block \in {RunIterations(g, cur, it,
                                          Min(it + 10, max_it), th)}} : TRUE

\* _label_propagation, lines 87-154.
LabelPropagation(protein_graph, initial, max_it, th) ==
    CHOOSE r \in {RunLabelPropagation(g, cur, 0, max_it, th) :
                     g \in {protein_graph}, cur \in {initial}} : TRUE

\* A write-back fault: the store operation that raises, if any.
NoFault == [protein_id |-> "none", store |-> "none"]

Faults == {NoFault} \cup [protein_id : Proteins, store : {"neo4j", "mongo"}]

\* An update that adds the labels to those the node already holds.
SetNodeLabelsMerging(labels, protein_id, new, attribute) ==
    IF protein_id \in DOMAIN labels[QueryProperty(attribute)]
    THEN [labels EXCEPT ![QueryProperty(attribute)][protein_id] = @ \cup new]
    ELSE labels

\* Neo4jService.update_protein_labels, lines 375-399.
SetNodeLabels(labels, protein_id, new, attribute) ==
    IF protein_id \in DOMAIN labels[QueryProperty(attribute)]
    THEN [labels EXCEPT ![QueryProperty(attribute)][protein_id] = new]
    ELSE labels

\* MongoDBService.update_protein_annotations, lines 224-260, on the
\* annotations built at lines 185-202.
UpdateProteinAnnotations(docs, protein_id, new, attribute) ==
    [docs EXCEPT ![protein_id] =
        [ec_numbers |-> IF attribute = "ec" THEN new ELSE {},
         go_terms |-> IF attribute = "go" THEN new ELSE {}]]

\* _update_protein_labels, lines 174-206, from the k-th item of final_labels
\* on; st holds the stores, the operations so far and the exception raised.
RECURSIVE UpdateProteinLabels(_, _, _, _, _, _)
UpdateProteinLabels(items, final_labels, attribute, fault, k, st) ==
    IF k > Len(items) \/ st.error # "none" THEN st
    ELSE
      LET p == items[k]
          neo(outcome) ==
              StoreCall("neo4j", "update_protein_labels", p, outcome)
          get == StoreCall("mongo", "get_protein_by_id", p, "ok")
          upd(outcome) ==
              StoreCall("mongo", "update_protein_annotations", p, outcome)
          next(st2) == UpdateProteinLabels(items, final_labels, attribute,
                                           fault, k + 1, st2)
      IN  IF fault = [protein_id |-> p, store |-> "neo4j"]
          THEN [st EXCEPT !.calls = Append(@, neo("raised")),
                          !.error = WriteError]
          ELSE
            LET st1 == [st EXCEPT
                          !.calls = @ \o <<neo("ok"), get>>,
                          !.labels = SetNodeLabels(@, p, final_labels[p],
                                                   attribute)]
            IN  IF p \notin DOMAIN st.docs
                THEN CHOOSE r \in {next(st2) : st2 \in {st1}} : TRUE
                ELSE IF fault = [protein_id |-> p, store |-> "mongo"]
                THEN [st1 EXCEPT !.calls = Append(@, upd("raised")),
                                 !.error = WriteError]
                ELSE CHOOSE r \in
                         {next(st2) :
                            st2 \in {[st1 EXCEPT
                                        !.calls = Append(@, upd("ok")),
                                        !.docs = UpdateProteinAnnotations(
                                                     @, p, final_labels[p],
                                                     attribute)]}} : TRUE

\* The proteins of proteins_data with a non-empty label list.
InitiallyAnnotated(proteins_data) ==
    {proteins_data[i].protein_id :
        i \in {k \in 1..Len(proteins_data) : proteins_data[k].labels # {}}}

\* A holdout of n // 5 proteins, without the floor of one protein.
HoldoutSizeWithoutFloor(n) == n \div 5

\* Line 219: holdout_size = max(1, len(initially_annotated) // 5).
HoldoutSize(n) == IF n \div 5 >= 1 THEN n \div 5 ELSE 1

\* Line 220: the possible results of random.sample(initially_annotated,
\* holdout_size), as sets of protein ids.
Samples(annotated) ==
    {H \in SUBSET annotated :
        Cardinality(H) = HoldoutSize(Cardinality(annotated))}

\* Metrics that count a prediction as correct only when it equals the
\* original labels.
EvaluationMetricsExactMatch(original_labels, holdout, final_labels) ==
    LET predicted == {p \in holdout : final_labels[p] # {}}
        correct == {p \in predicted : original_labels[p] = final_labels[p]}
        total_predictions == Cardinality(predicted)
        correct_predictions == Cardinality(correct)
    IN  [holdout_proteins |-> holdout,
         holdout_size |-> Cardinality(holdout),
         accuracy |-> IF total_predictions > 0
                      THEN Divide(correct_predictions, total_predictions)
                      ELSE Frac(0, 1),
         coverage |-> Divide(total_predictions, Cardinality(holdout)),
         correct_predictions |-> correct_predictions,
         total_predictions |-> total_predictions]

\* evaluate_propagation_quality, lines 235-259: the metrics of the holdout
\* over the returned labels.
EvaluationMetrics(original_labels, holdout, final_labels) ==
    LET predicted == {p \in holdout : final_labels[p] # {}}
        correct == {p \in predicted :
                       original_labels[p] \cap final_labels[p] # {}}
        total_predictions == Cardinality(predicted)
        correct_predictions == Cardinality(correct)
    IN  [holdout_proteins |-> holdout,
         holdout_size |-> Cardinality(holdout),
         accuracy |-> IF total_predictions > 0
                      THEN Divide(correct_predictions, total_predictions)
                      ELSE Frac(0, 1),
         coverage |-> Divide(total_predictions, Cardinality(holdout)),
         correct_predictions |-> correct_predictions,
         total_predictions |-> total_predictions]

\* evaluate_propagation_quality, lines 222-228: the labels of the holdout
\* proteins are emptied.
HideLabels(proteins_data, holdout) ==
    [i \in 1..Len(proteins_data) |->
        IF proteins_data[i].protein_id \in holdout
        THEN [proteins_data[i] EXCEPT !.labels = {}]
        ELSE proteins_data[i]]

\* evaluate_propagation_quality, lines 230-233: the propagation over the
\* data with the labels of the sample `holdout` emptied.
HoldoutRun(proteins_data, holdout) ==
    CHOOSE r \in
        {LabelPropagation(BuildGraph(modified_data),
                          ExtractInitialLabels(modified_data),
                          100, Frac(1, 100)) :
            modified_data \in {HideLabels(proteins_data, holdout)}} : TRUE

\* get_propagation_statistics, lines 267-293 (without most_common_labels and
\* average_labels_per_protein).
GetPropagationStatistics(proteins_data, attribute) ==
    LET total_proteins == Len(proteins_data)
        annotated_proteins == Cardinality(InitiallyAnnotated(proteins_data))
    IN  [attribute |-> attribute,
         total_proteins |-> total_proteins,
         annotated_proteins |-> annotated_proteins,
         unannotated_proteins |-> total_proteins - annotated_proteins,
         annotation_rate |-> IF total_proteins > 0
                             THEN Divide(annotated_proteins, total_proteins)
                             ELSE Frac(0, 1),
         unique_labels |->
             Cardinality(UNION {proteins_data[i].labels :
                                   i \in 1..Len(proteins_data)})]

\* An answer of the annotation router.
Response(op, attribute, status_code, error, body) ==
    [op |-> op, attribute |-> attribute, status_code |-> status_code,
     error |-> error, body |-> body]

\* main.py lines 16-17: the lifespan connects both stores.
Startup ==
    /\ driver = "None"
    /\ driver' = "connected"
    /\ UNCHANGED <<store_graph, store_labels, doc_labels, store_calls,
                   response, served, last_run, not_prop_vars>>

\* POST /annotation/propagate (annotation.py lines 9-19) around
\* LabelPropagationService.propagate_labels (lines 17-61).
PropagateLabels(attribute, max_it, th, order, fault) ==
    \E got \in {GetProteinsForLabelPropagation(attribute, order)} :
        IF got.error # "none"
        THEN /\ response' = Response("propagate", attribute, 500, got.error,
                                     << >>)
             /\ store_calls' = got.calls
             /\ last_run' = NoRun
             /\ UNCHANGED <<store_labels, doc_labels>>
        ELSE IF got.proteins_data = << >>
        THEN /\ response' = Response("propagate", attribute, 500,
                                     NoProteinsError, << >>)
             /\ store_calls' = got.calls
             /\ last_run' = NoRun
             /\ UNCHANGED <<store_labels, doc_labels>>
        ELSE
          \E initial \in {ExtractInitialLabels(got.proteins_data)} :
          \E run \in {LabelPropagation(BuildGraph(got.proteins_data),
                                       initial, max_it, th)} :
          \E written \in {UpdateProteinLabels(
                              order, run.final_labels, attribute, fault, 1,
                              [labels |-> store_labels, docs |-> doc_labels,
                               calls |-> got.calls, error |-> "none"])} :
              /\ last_run' = Run(BuildGraph(got.proteins_data), initial,
                                  max_it, th, run.final_labels)
              /\ store_labels' = written.labels
              /\ doc_labels' = written.docs
              /\ store_calls' = written.calls
              /\ response' =
                   IF written.error # "none"
                   THEN Response("propagate", attribute, 500, written.error,
                                 << >>)
                   ELSE Response("propagate", attribute, 200, "none",
                            [iterations_completed |-> run.iterations,
                             converged |-> run.converged,
                             annotated_proteins |->
                                 Cardinality({p \in DOMAIN run.final_labels :
                                                 run.final_labels[p] # {}}),
                             confidence_scores |->
                                 CalculateConfidenceScores(run.final_labels,
                                                           initial),
                             predicted_labels |-> run.final_labels])

\* A masking that empties the labels of the holdout in the graph store.
MaskedInStore(labels, attribute, holdout) ==
    [labels EXCEPT ![QueryProperty(attribute)] =
        [p \in DOMAIN @ |-> IF p \in holdout THEN {} ELSE @[p]]]

\* Lines 222-228: the masking assigns to the fetched rows (modified_data),
\* and the evaluation issues no write: the labels of the graph store after it.
LabelsAfterMasking(labels, attribute, holdout) == labels

\* A seed test that lets an empty list of seed-labelled proteins through.
SeedsAssumed(annotated) == FALSE

\* Line 216: `if not initially_annotated`.
NoSeeds(annotated) == annotated = {}

\* GET /annotation/evaluate/{attribute} (annotation.py lines 22-39) around
\* evaluate_propagation_quality (lines 208-259). random.sample raises when
\* the sample is larger than the population, and an exception of the service
\* is answered with status 500.
Evaluate(attribute, order) ==
    IF ~RouterAccepts(attribute)
    THEN /\ response' = Response("evaluate", attribute, 400, AttributeError,
                                 << >>)
         /\ store_calls' = << >>
         /\ last_run' = NoRun
         /\ UNCHANGED store_labels
    ELSE
      \E got \in {GetProteinsForLabelPropagation(attribute, order)} :
      \E annotated \in {InitiallyAnnotated(got.proteins_data)} :
          /\ store_calls' = got.calls
          /\ IF got.error # "none"
             THEN /\ response' = Response("evaluate", attribute, 500,
                                          got.error, << >>)
                  /\ last_run' = NoRun
                  /\ UNCHANGED store_labels
             ELSE IF NoSeeds(annotated)
             THEN /\ response' = Response("evaluate", attribute, 200, "none",
                                          [error |-> NoSeedsError])
                  /\ last_run' = NoRun
                  /\ UNCHANGED store_labels
             ELSE IF HoldoutSize(Cardinality(annotated))
                         > Cardinality(annotated)
             THEN /\ response' = Response("evaluate", attribute, 500,
                                          SampleError, << >>)
                  /\ last_run' = NoRun
                  /\ UNCHANGED store_labels
             ELSE
               \E holdout \in Samples(annotated) :
               \E modified_data \in {HideLabels(got.proteins_data, holdout)} :
               \E run \in {HoldoutRun(got.proteins_data, holdout)} :
               \E metrics \in {EvaluationMetrics(
                                   ExtractInitialLabels(got.proteins_data),
                                   holdout, run.final_labels)} :
                   /\ last_run' = Run(BuildGraph(modified_data),
                                      ExtractInitialLabels(modified_data),
                                      100, Frac(1, 100), run.final_labels)
                   /\ store_labels' = LabelsAfterMasking(store_labels,
                                                         attribute, holdout)
                   /\ response' =
                        IF metrics.coverage = ZeroDivisionError
                        THEN Response("evaluate", attribute, 500,
                                      ZeroDivisionError.error, << >>)
                        ELSE Response("evaluate", attribute, 200, "none",
                                      metrics)

\* GET /annotation/statistics/{attribute} (annotation.py lines 42-59) around
\* get_propagation_statistics (lines 261-293).
Statistics(attribute, order) ==
    IF ~RouterAccepts(attribute)
    THEN /\ response' = Response("statistics", attribute, 400, AttributeError,
                                 << >>)
         /\ store_calls' = << >>
         /\ last_run' = NoRun
    ELSE
      LET got == GetProteinsForLabelPropagation(attribute, order)
      IN  /\ store_calls' = got.calls
          /\ last_run' = NoRun
          /\ response' =
               IF got.error # "none"
               THEN Response("statistics", attribute, 500, got.error, << >>)
               ELSE Response("statistics", attribute, 200, "none",
                        GetPropagationStatistics(got.proteins_data, attribute))

\* Values of max_iterations of the propagation requests.
RequestIterations == {1, 10}

PropagateRequest ==
    /\ served < MaxRequests
    /\ served' = served + 1
    /\ \E attribute \in Attributes, max_it \in RequestIterations,
          order \in Orders(DOMAIN store_graph), fault \in Faults :
           PropagateLabels(attribute, max_it, Frac(1, 100), order, fault)
    /\ UNCHANGED <<driver, store_graph, not_prop_vars>>

EvaluateRequest ==
    /\ served < MaxRequests
    /\ served' = served + 1
    /\ \E attribute \in Attributes,
          order \in {SetToSeq(DOMAIN store_graph)} :
           Evaluate(attribute, order)
    /\ UNCHANGED <<driver, store_graph, doc_labels, not_prop_vars>>

StatisticsRequest ==
    /\ served < MaxRequests
    /\ served' = served + 1
    /\ \E attribute \in Attributes,
          order \in {SetToSeq(DOMAIN store_graph)} :
           Statistics(attribute, order)
    /\ UNCHANGED <<driver, store_graph, store_labels, doc_labels, not_prop_vars>>

\* Seed labels of the nodes of the graph store.
SeedAssignments(nodes) ==
    {[p \in nodes |-> IF p \in DOMAIN f THEN f[p] ELSE {}] :
        f \in {<< >>,
                [A |-> {"1.1.1.1"}],
                [A |-> {"1.1.1.1"}, B |-> {"2.2.2.2"}],
                [A |-> {"1.1.1.1"}, C |-> {"2.2.2.2"}],
                [A |-> {"1.1.1.1", "2.2.2.2"}, B |-> {"1.1.1.1"},
                 C |-> {"1.1.1.1"}]}}

\* Contents of the graph store: no node, the chain A-B-C, or the edge A-B
\* beside the isolated node C.
PropGraphs ==
    {<< >>,
     [A |-> {"B"}, B |-> {"A", "C"}, C |-> {"B"}],
     [A |-> {"B"}, B |-> {"A"}, C |-> {}]}

\* Proteins of the graph store that are also in the document store.
DocumentedChoices == {{}, {"A", "B"}}

PropInit ==
    /\ driver = "None"
    /\ store_graph \in PropGraphs
    /\ \E ec \in SeedAssignments(DOMAIN store_graph) :
          store_labels =
              [ec |-> ec,
               go |-> [p \in DOMAIN store_graph |->
                          IF p = "A" THEN {"2.2.2.2"} ELSE {}]]
    /\ \E D \in DocumentedChoices :
          doc_labels = [p \in D \cap DOMAIN store_graph |->
                           [ec_numbers |-> store_labels.ec[p],
                            go_terms |-> store_labels.go[p]]]
    /\ store_calls = << >>
    /\ response = NoResponse
    /\ served = 0
    /\ last_run = NoRun
    /\ LPIdle
    /\ GraphIdle
    /\ JaccardIdle
    /\ ImportIdle
    /\ MoreIdle

PropNext ==
    Startup \/ PropagateRequest \/ EvaluateRequest \/ StatisticsRequest

PropSpec == PropInit /\ [][PropNext]_vars

(***************************************************************************)
(* Properties of the annotation requests                                   *)
(***************************************************************************)
\* The write operations among the store operations of the last request.
WriteCalls ==
    {i \in 1..Len(store_calls) :
        store_calls[i].op \in {"update_protein_labels",
                               "update_protein_annotations"}}

\* C11: a propagation request fails with an error and returns no result when
\* its attribute is neither "ec" nor "go", and when the graph store returns
\* zero proteins; in both cases no label is written to the graph store or to
\* the document store.
C11_PropagateFailsWithoutWriting ==
    [][(/\ served' = served + 1
        /\ response'.op = "propagate"
        /\ \/ response'.attribute \notin {"ec", "go"}
           \/ DOMAIN store_graph = {})
       => (/\ response'.error # "none"
           /\ response'.status_code # 200
           /\ response'.body = << >>
           /\ store_labels' = store_labels
           /\ doc_labels' = doc_labels
           /\ \A i \in 1..Len(store_calls') :
                  store_calls'[i].op \notin {"update_protein_labels",
                                             "update_protein_annotations"})]_vars

\* A propagation request for an unsupported attribute was refused by a
\* connected graph store that holds labelled proteins.
C11_Witness ==
    /\ response.op = "propagate"
    /\ response.attribute = "kegg"
    /\ response.error = AttributeError
    /\ driver = "connected"
    /\ \E p \in DOMAIN store_graph : store_labels.go[p] # {}

\* C12: a request whose attribute is outside {"ec", "go"} is rejected for its
\* attribute before any store operation is invoked, and no availability check
\* of a store decides its outcome.
C12_InvalidAttributeRejectedFirst ==
    (response.op \in {"propagate", "evaluate", "statistics"}
         /\ response.attribute \notin {"ec", "go"})
        => (response.error = AttributeError /\ store_calls = << >>)

\* C13: when the write of one protein's labels fails during the write-back,
\* the update of every protein of the final assignment is still attempted and
\* the request is not aborted.
C13_WriteBackBestEffort ==
    (response.op = "propagate"
         /\ \E i \in WriteCalls : store_calls[i].outcome = "raised")
        => (/\ \A p \in DOMAIN store_graph :
                   \E i \in WriteCalls :
                       /\ store_calls[i].op = "update_protein_labels"
                       /\ store_calls[i].protein_id = p
            /\ response.status_code = 200)

(***************************************************************************)
(* DataImportService._batch_insert_proteins                                *)
(***************************************************************************)
\* Line 161: the default of batch_size.
DefaultBatchSize == 100

\* Line 197: failed_proteins[:10].
FailedSampleSize == 10

\* Values of batch_size: the default and one that splits the list.
BatchSizeChoices == {DefaultBatchSize, 4}

\* The whole list of failures instead of its first ten.
AllFailures(failed) == failed

\* Line 197: failed_proteins[:10].
FailedSample(failed) == SubSeq(failed, 1, Min(FailedSampleSize, Len(failed)))

\* Line 172: batch = proteins[i : i + batch_size], as positions of proteins.
Batch(i) ==
    [k \in 1..(Min(i + batch_size, Len(proteins)) - i) |-> i + k]

\* The element of proteins at position k has protein_id k.
ImportInit ==
    /\ import_pc = "running"
    /\ \E n \in 0..MaxImportProteins : proteins = [k \in 1..n |-> k]
    /\ batch_size \in BatchSizeChoices
    /\ batch_start = 0
    /\ batch_pos = 1
    /\ inserted_count = 0
    /\ failed_count = 0
    /\ failed_proteins = << >>
    /\ attempts = << >>
    /\ import_result = << >>
    /\ LPIdle
    /\ GraphIdle
    /\ JaccardIdle
    /\ PropIdle
    /\ MoreIdle

\* Lines 171-172, 174: the loops move on to the next protein.
Advance ==
    IF batch_pos < Len(Batch(batch_start))
    THEN /\ batch_pos' = batch_pos + 1
         /\ UNCHANGED batch_start
    ELSE /\ batch_start' = batch_start + batch_size
         /\ batch_pos' = 1

\* Lines 174-177: insert_protein returns.
InsertSucceeds ==
    /\ import_pc = "running"
    /\ batch_start < Len(proteins)
    /\ LET protein == proteins[Batch(batch_start)[batch_pos]]
       IN  /\ attempts' = Append(attempts, [protein_id |-> protein,
                                            outcome |-> "inserted"])
           /\ inserted_count' = inserted_count + 1
    /\ Advance
    /\ UNCHANGED <<import_pc, proteins, batch_size, failed_count,
                   failed_proteins, import_result, not_import_vars>>

\* Lines 174-185: insert_protein raises.
InsertFails ==
    /\ import_pc = "running"
    /\ batch_start < Len(proteins)
    /\ LET protein == proteins[Batch(batch_start)[batch_pos]]
       IN  /\ attempts' = Append(attempts, [protein_id |-> protein,
                                            outcome |-> "raised"])
           /\ failed_count' = failed_count + 1
           /\ failed_proteins' =
                  Append(failed_proteins,
                         [protein_id |-> protein, error |-> "insert failed"])
    /\ Advance
    /\ UNCHANGED <<import_pc, proteins, batch_size, inserted_count,
                   import_result, not_import_vars>>

\* Lines 190-203: the tally is returned.
ImportReturn ==
    /\ import_pc = "running"
    /\ batch_start >= Len(proteins)
    /\ import_pc' = "done"
    /\ import_result' =
           [total_proteins |-> Len(proteins),
            inserted_count |-> inserted_count,
            failed_count |-> failed_count,
            success_rate |-> IF Len(proteins) > 0
                             THEN Divide(inserted_count, Len(proteins))
                             ELSE Frac(0, 1),
            failed_proteins |-> FailedSample(failed_proteins)]
    /\ UNCHANGED <<proteins, batch_size, batch_start, batch_pos,
                   inserted_count, failed_count, failed_proteins, attempts,
                   not_import_vars>>

ImportNext == InsertSucceeds \/ InsertFails \/ ImportReturn

ImportSpec == ImportInit /\ [][ImportNext]_vars

(***************************************************************************)
(* Properties of _batch_insert_proteins                                    *)
(***************************************************************************)
\* The failures among the attempts, in order.
FailedAttempts == SelectSeq(attempts, LAMBDA a : a.outcome = "raised")

\* C14: a bulk import never aborts on an insert failure: every protein of the
\* list is attempted exactly once (in list order), the returned tally has
\* inserted_count + failed_count = total_proteins, and failed_proteins holds
\* the first min(10, failed_count) failures.
C14_ImportTally ==
    /\ inserted_count + failed_count = Len(attempts)
    /\ \A k \in 1..Len(attempts) : attempts[k].protein_id = proteins[k]
    /\ import_pc = "done" =>
         /\ Len(attempts) = Len(proteins)
         /\ import_result.total_proteins = Len(proteins)
         /\ import_result.inserted_count + import_result.failed_count
                = import_result.total_proteins
         /\ import_result.failed_count = Len(FailedAttempts)
         /\ Len(import_result.failed_proteins)
                = Min(10, import_result.failed_count)
         /\ \A k \in 1..Len(import_result.failed_proteins) :
                import_result.failed_proteins[k].protein_id
                    = FailedAttempts[k].protein_id

\* An import in several batches returned after more than ten failures and at
\* least one insertion.
C14_Witness ==
    /\ import_pc = "done"
    /\ batch_size < Len(proteins)
    /\ import_result.failed_count > 10
    /\ import_result.inserted_count > 0


(***************************************************************************)
(* The evaluation of the propagation quality over larger graph stores.     *)
(* The proteins are numbered 1..n; the first m of them hold seed labels.   *)
(***************************************************************************)
\* A chain 1 - 2 - ... - k of SIMILAR_TO relationships over the proteins
\* 1..n; the proteins above k have no neighbour.
Chain(n, k) ==
    [p \in 1..n |-> {q \in 1..k : p <= k /\ (q = p - 1 \/ q = p + 1)}]

\* The graph stores evaluated: a chain of all proteins, and a chain with the
\* last protein left alone.
EvalGraphs(n) ==
    IF n = 0 THEN {Chain(0, 0)} ELSE {Chain(n, n), Chain(n, n - 1)}

\* The ec_numbers of the first m of n proteins: the same EC number for all,
\* another EC number for the first protein, or two EC numbers in turn.
EvalSeeds(n, m) ==
    {[p \in 1..n |-> IF p <= m THEN {"1.1.1.1"} ELSE {}],
     [p \in 1..n |-> IF p > m THEN {}
                     ELSE IF p = 1 THEN {"2.2.2.2"} ELSE {"1.1.1.1"}],
     [p \in 1..n |-> IF p > m THEN {}
                     ELSE IF p % 2 = 1 THEN {"1.1.1.1"} ELSE {"2.2.2.2"}]}

EvalInit ==
    /\ driver = "None"
    /\ \E m \in 0..MaxEvalProteins, u \in {0, 1} :
          /\ store_graph \in EvalGraphs(m + u)
          /\ \E ec \in EvalSeeds(m + u, m) :
                store_labels = [ec |-> ec, go |-> [p \in 1..(m + u) |-> {}]]
    /\ doc_labels = << >>
    /\ store_calls = << >>
    /\ response = NoResponse
    /\ served = 0
    /\ last_run = NoRun
    /\ LPIdle
    /\ GraphIdle
    /\ JaccardIdle
    /\ ImportIdle
    /\ MoreIdle

\* An evaluation writes to no store: the first evaluation of a behaviour
\* stands for every one of them.
FirstEvaluation == response = NoResponse /\ EvaluateRequest

EvalNext == Startup \/ FirstEvaluation

EvalSpec == EvalInit /\ [][EvalNext]_vars

\* The seed-labelled proteins of the graph store for an attribute.
SeedLabelled(attribute) ==
    {p \in DOMAIN store_graph : store_labels[QueryProperty(attribute)][p] # {}}

\* The last request was an evaluation that reached the seed test.
Evaluated ==
    /\ response.op = "evaluate"
    /\ response.attribute \in {"ec", "go"}
    /\ response.error # DriverError

\* C15: an evaluation over n >= 1 seed-labelled proteins answers with the
\* metrics of a holdout of exactly max(1, n // 5) distinct seed-labelled
\* proteins, whose labels are hidden from the propagation; coverage is
\* total_predictions / holdout_size and
\* 0 <= correct_predictions <= total_predictions <= holdout_size.
C15_HoldoutAndMetrics ==
    (Evaluated /\ SeedLabelled(response.attribute) # {}) =>
        LET n == Cardinality(SeedLabelled(response.attribute))
            m == response.body
        IN  /\ response.status_code = 200
            /\ DOMAIN m = {"holdout_proteins", "holdout_size", "accuracy",
                           "coverage", "correct_predictions",
                           "total_predictions"}
            /\ m.holdout_size = IF n \div 5 >= 1 THEN n \div 5 ELSE 1
            /\ m.holdout_proteins \subseteq SeedLabelled(response.attribute)
            /\ Cardinality(m.holdout_proteins) = m.holdout_size
            /\ \A p \in DOMAIN store_graph :
                   last_run.initial_labels[p] =
                       IF p \in m.holdout_proteins THEN {}
                       ELSE store_labels[QueryProperty(response.attribute)][p]
            /\ m.coverage.num * m.holdout_size
                   = m.total_predictions * m.coverage.den
            /\ m.coverage.den > 0
            /\ 0 <= m.correct_predictions
            /\ m.correct_predictions <= m.total_predictions
            /\ m.total_predictions <= m.holdout_size

\* Ten seed-labelled proteins were evaluated with a holdout of two, one of
\* which received a prediction.
C15_Witness ==
    /\ Evaluated
    /\ Cardinality(SeedLabelled(response.attribute)) = 10
    /\ response.status_code = 200
    /\ response.body.holdout_size = 2
    /\ response.body.total_predictions = 1
    /\ response.body.correct_predictions = 0

\* C16: when no protein of the graph store holds a seed label (an empty store
\* included), the evaluation answers with the evaluation error instead of
\* metrics, runs no propagation and divides by no holdout size.
C16_NoSeedsIsAnError ==
    (Evaluated /\ SeedLabelled(response.attribute) = {}) =>
        /\ response.status_code = 200
        /\ response.error = "none"
        /\ response.body =
               [error |-> "No initially annotated proteins found for evaluation"]
        /\ last_run = NoRun

\* An evaluation of a graph store whose proteins hold no seed label answered
\* with the evaluation error.
C16_Witness ==
    /\ Evaluated
    /\ DOMAIN store_graph # {}
    /\ SeedLabelled(response.attribute) = {}
    /\ response.body = [error |-> NoSeedsError]


(***************************************************************************)
(* Two graph builds interleaved at the store calls of                      *)
(* Neo4jService.build_protein_graph: each `await` of a store call is a     *)
(* point where the event loop may run the other request.                   *)
(***************************************************************************)
\* Document stores of the interleaved builds.
ConcDocStores ==
    {<<[protein_id |-> "A", domains |-> <<"d1">>],
       [protein_id |-> "B", domains |-> <<"d1", "d2">>],
       [protein_id |-> "C", domains |-> <<"d2">>]>>,
     <<[protein_id |-> "A", domains |-> <<"d1">>],
       [protein_id |-> "B", domains |-> <<"d1">>],
       [protein_id |-> "C", domains |-> <<"d1">>]>>}

\* Values of max_proteins of the interleaved builds (0 is None).
ConcMaxProteinsChoices == {0, 2}

\* Lines 135-152: the positions in PairSeq of the pairs that get an edge.
WantedPairs(proteins_data, min_sim) ==
    {j \in 1..((Len(proteins_data) * (Len(proteins_data) - 1)) \div 2) :
        EdgeWanted(
            ToSet(proteins_data[PairSeq(Len(proteins_data))[j][1]].domains),
            ToSet(proteins_data[PairSeq(Len(proteins_data))[j][2]].domains),
            min_sim)}

\* Lines 154-159: edge_data of a pair.
EdgeData(protein1, protein2) ==
    LET domains1 == ToSet(protein1.domains)
        domains2 == ToSet(protein2.domains)
        intersection == domains1 \cap domains2
        jaccard_similarity ==
            Divide(Cardinality(intersection),
                   Cardinality(domains1 \cup domains2))
    IN  [weight |-> jaccard_similarity,
         jaccard_similarity |-> jaccard_similarity,
         shared_domains |-> intersection,
         shared_domain_count |-> Cardinality(intersection)]

\* A build is between its first store call and its return.
InFlight(b) == builds[b].pc \notin {"idle", "returned"}

\* History kept by every step of build b: whether another build is in flight,
\* and the return of b.
Track(b, pc) ==
    /\ overlapped' = (overlapped \/ \E c \in Builds \ {b} : InFlight(c))
    /\ returned_order' = IF pc = "returned" THEN Append(returned_order, b)
                         ELSE returned_order

ConcInit ==
    /\ mongo_docs \in ConcDocStores
    /\ neo_nodes = << >>
    /\ neo_edges = {}
    /\ min_similarity = Frac(1, 10)
    /\ last_op = "none"
    /\ last_build = NoBuild
    /\ ConcIdle
    /\ StepIdle
    /\ LPIdle
    /\ JaccardIdle
    /\ PropIdle
    /\ ImportIdle

\* graph_service.py lines 31-39: the request sets min_similarity, reads the
\* document store and returns when it holds no protein.
StartBuild(b) ==
    /\ builds[b].pc = "idle"
    /\ \E min_sim \in MinSimilarityChoices,
          max_proteins \in ConcMaxProteinsChoices :
        \E proteins_data \in {GetAllProteinsForGraph(mongo_docs,
                                                     max_proteins)} :
        \E pc \in {IF proteins_data = << >> THEN "returned" ELSE "clear"} :
            /\ min_similarity' = min_sim
            /\ builds' = [builds EXCEPT ![b] =
                             [pc |-> pc, min_sim |-> min_sim,
                              max_proteins |-> max_proteins,
                              proteins_data |-> proteins_data, k |-> 0]]
            /\ Track(b, pc)
    /\ UNCHANGED <<mongo_docs, neo_nodes, neo_edges, last_op, last_build,
                   not_conc_vars>>

\* neo4j_service.py line 104: await self.clear_database().
ClearStep(b) ==
    /\ builds[b].pc = "clear"
    /\ neo_nodes' = ClearedNodes(neo_nodes)
    /\ neo_edges' = ClearedEdges(neo_edges)
    /\ builds' = [builds EXCEPT ![b].pc = "nodes", ![b].k = 0]
    /\ Track(b, "nodes")
    /\ UNCHANGED <<mongo_docs, min_similarity, last_op, last_build,
                   not_conc_vars>>

\* Lines 121-132: the MERGE of the next node; after the last node the loops
\* of lines 135-163 run up to their first edge, or to the return.
NodeUpsert(b) ==
    /\ builds[b].pc = "nodes"
    /\ \E k \in {builds[b].k + 1} :
       \E pc \in {IF k < Len(builds[b].proteins_data) THEN "nodes"
                  ELSE IF WantedPairs(builds[b].proteins_data,
                                      builds[b].min_sim) # {}
                  THEN "edges" ELSE "returned"} :
           /\ neo_nodes' = MergeNodes(neo_nodes,
                                      <<builds[b].proteins_data[k]>>)
           /\ builds' = [builds EXCEPT
                            ![b].pc = pc,
                            ![b].k = IF pc = "nodes" THEN k ELSE 0]
           /\ Track(b, pc)
    /\ UNCHANGED <<mongo_docs, neo_edges, min_similarity, last_op, last_build,
                   not_conc_vars>>

\* Lines 154-161: create_similarity_edge for the next pair that gets an edge;
\* after the last such pair the build returns.
EdgeUpsert(b) ==
    /\ builds[b].pc = "edges"
    /\ \E wanted \in {WantedPairs(builds[b].proteins_data,
                                  builds[b].min_sim)} :
       \E j \in {x \in wanted : x > builds[b].k /\
                    \A y \in wanted : y > builds[b].k => x <= y} :
       \E pr \in {PairSeq(Len(builds[b].proteins_data))[j]} :
       \E pc \in {IF \E y \in wanted : y > j THEN "edges" ELSE "returned"} :
           /\ neo_edges' = CreateSimilarityEdge(
                               neo_nodes, neo_edges,
                               builds[b].proteins_data[pr[1]].protein_id,
                               builds[b].proteins_data[pr[2]].protein_id,
                               EdgeData(builds[b].proteins_data[pr[1]],
                                        builds[b].proteins_data[pr[2]]))
           /\ builds' = [builds EXCEPT ![b].pc = pc, ![b].k = j]
           /\ Track(b, pc)
    /\ UNCHANGED <<mongo_docs, neo_nodes, min_similarity, last_op, last_build,
                   not_conc_vars>>

ConcNext ==
    \E b \in Builds :
        StartBuild(b) \/ ClearStep(b) \/ NodeUpsert(b) \/ EdgeUpsert(b)

ConcSpec == ConcInit /\ [][ConcNext]_vars

\* The relationships a build leaves when it runs alone.
OwnEdges(b) ==
    Neo4jBuildEdges(<< >>, {}, builds[b].proteins_data, builds[b].min_sim)

\* The nodes a build leaves when it runs alone.
OwnNodes(b) == Neo4jBuildNodes(<< >>, builds[b].proteins_data)

AllReturned == \A b \in Builds : builds[b].pc = "returned"

\* C17: builds that did not overlap leave the graph store with the nodes and
\* relationships of the build that returned last; interleaved at their store
\* calls, two builds can both return and leave relationships that are the
\* result of neither (C17_Witness).
C17_SerializedBuildsLastWins ==
    (AllReturned /\ ~overlapped) =>
        /\ neo_edges = OwnEdges(returned_order[Len(returned_order)])
        /\ neo_nodes = OwnNodes(returned_order[Len(returned_order)])

\* Both builds returned after overlapping, and the relationships of the store
\* are those of neither build.
C17_Witness ==
    /\ AllReturned
    /\ overlapped
    /\ \/ builds[1].min_sim # builds[2].min_sim
       \/ builds[1].proteins_data # builds[2].proteins_data
    /\ \A b \in Builds : neo_edges # OwnEdges(b)


(***************************************************************************)
(* _label_propagation stepped protein by protein: the inner loop of lines  *)
(* 102-132 fills new_labels in the order of list(graph.keys()).            *)
(***************************************************************************)
\* Values of max_iterations of the stepped runs.
StepIterationsChoices == {1, 2}

\* The orders of list(graph.keys()): the insertion order of the dict built by
\* _build_graph, any order of the rows of the query.
ProteinOrders ==
    {s \in [1..Len(ProteinIds) -> Proteins] :
        \A i, j \in 1..Len(ProteinIds) : i # j => s[i] # s[j]}

\* A loop that reads the label sets already written in this iteration.
PartiallyUpdated(cur, new) ==
    [q \in DOMAIN cur |-> IF q \in DOMAIN new THEN new[q] ELSE cur[q]]

\* Lines 110-112, 126, 129: the inner loop reads current_labels, which the
\* iteration does not write (new_labels is a fresh dict, line 99).
ReadLabels(cur, new) == cur

StepInit ==
    /\ lp_pc = "running"
    /\ graph \in Graphs
    /\ initial_labels \in LabelAssignments
    /\ max_iterations \in StepIterationsChoices
    /\ threshold \in ThresholdChoices
    /\ current_labels = initial_labels
    /\ iteration = 0
    /\ changes_log = << >>
    /\ labels_log = << >>
    /\ result = NoResult
    /\ confidence_scores = << >>
    /\ protein_order \in ProteinOrders
    /\ position = 0
    /\ new_labels_so_far = << >>
    /\ changes_so_far = 0
    /\ GraphIdle
    /\ JaccardIdle
    /\ PropIdle
    /\ ImportIdle
    /\ ConcIdle

\* Lines 102-132: the body of the inner loop for the next protein.
StepProtein ==
    /\ lp_pc = "running"
    /\ LPLoopGuard
    /\ position < Len(protein_order)
    /\ \E protein \in {protein_order[position + 1]} :
       \E new_label_set \in
              {NewLabelSet(graph, ReadLabels(current_labels, new_labels_so_far),
                           protein)} :
           /\ changes_so_far' = IF current_labels[protein] # new_label_set
                         THEN changes_so_far + 1 ELSE changes_so_far
           /\ new_labels_so_far' = [q \in DOMAIN new_labels_so_far \cup {protein} |->
                                IF q = protein THEN new_label_set
                                ELSE new_labels_so_far[q]]
    /\ position' = position + 1
    /\ UNCHANGED <<lp_vars, protein_order, graph_vars, jaccard_vars,
                   prop_vars, import_vars, conc_vars>>

\* Lines 134-147: the convergence test at the end of an iteration.
StepEndIteration ==
    /\ lp_pc = "running"
    /\ LPLoopGuard
    /\ position = Len(protein_order)
    /\ changes_log' = Append(changes_log, changes_so_far)
    /\ labels_log' = Append(labels_log, new_labels_so_far)
    /\ iteration' = iteration + 1
    /\ IF RateBelowThreshold(changes_so_far, Len(protein_order), threshold)
       THEN /\ lp_pc' = "done"
            /\ result' = [final_labels |-> new_labels_so_far,
                          iterations |-> iteration + 1,
                          converged |-> TRUE]
            /\ UNCHANGED current_labels
       ELSE /\ current_labels' = new_labels_so_far
            /\ UNCHANGED <<lp_pc, result>>
    /\ position' = 0
    /\ new_labels_so_far' = << >>
    /\ changes_so_far' = 0
    /\ UNCHANGED <<graph, initial_labels, max_iterations, threshold,
                   confidence_scores, protein_order, graph_vars, jaccard_vars,
                   prop_vars, import_vars, conc_vars>>

\* Lines 149-154: the loop is exhausted without convergence.
StepReturnMax ==
    /\ lp_pc = "running"
    /\ ~LPLoopGuard
    /\ lp_pc' = "done"
    /\ result' = [final_labels |-> current_labels,
                  iterations |-> max_iterations,
                  converged |-> FALSE]
    /\ UNCHANGED <<graph, initial_labels, max_iterations, threshold,
                   current_labels, iteration, changes_log, labels_log,
                   confidence_scores, step_vars, graph_vars, jaccard_vars,
                   prop_vars, import_vars, conc_vars>>

StepNext == StepProtein \/ StepEndIteration \/ StepReturnMax

LPStepSpec == StepInit /\ [][StepNext]_vars

\* Position of a protein in the processing order.
OrderIndex(p) == CHOOSE k \in 1..Len(protein_order) : protein_order[k] = p

\* The neighbours of p that hold a label in the assignment cur.
LabelledNeighbors(cur, p) == {q \in graph[p] : cur[q] # {}}

\* C18: in every iteration, whatever the order of the proteins, the new label
\* set of a protein with a labelled neighbour is exactly the union of the
\* label sets its neighbours held before the iteration, and never a set
\* written during the iteration.
C18_SynchronousUnion ==
    /\ \A i \in 1..Len(labels_log) : \A p \in Proteins :
           LabelledNeighbors(Before(i), p) # {} =>
               labels_log[i][p] = UNION {Before(i)[q] : q \in graph[p]}
    /\ \A k \in 1..position :
           LabelledNeighbors(current_labels, protein_order[k]) # {} =>
               new_labels_so_far[protein_order[k]] =
                   UNION {current_labels[q] : q \in graph[protein_order[k]]}

\* An iteration completed in which a protein was processed after one of its
\* neighbours whose label set the iteration had changed, and in which a
\* neighbour label counted twice.
C18_Witness ==
    /\ Len(labels_log) >= 1
    /\ \E p \in Proteins : \E q \in graph[p] :
          /\ OrderIndex(q) < OrderIndex(p)
          /\ initial_labels[q] # {}
          /\ labels_log[1][q] # initial_labels[q]
          /\ labels_log[1][p] # UNION {labels_log[1][r] : r \in graph[p]}
    /\ \E p \in Proteins : \E l \in Labels :
          Cardinality({q \in graph[p] : l \in initial_labels[q]}) = 2

\* C19: in every iteration a protein without neighbours, and a protein none
\* of whose neighbours holds a label, keeps its label set, and only proteins
\* with a labelled neighbour are counted in `changes`.
C19_UnreachedProteinsKept ==
    /\ \A i \in 1..Len(labels_log) :
          /\ \A p \in Proteins :
                 LabelledNeighbors(Before(i), p) = {} =>
                     labels_log[i][p] = Before(i)[p]
          /\ changes_log[i] =
                 Cardinality({p \in Proteins :
                     /\ LabelledNeighbors(Before(i), p) # {}
                     /\ labels_log[i][p] # Before(i)[p]})
    /\ changes_so_far <= Cardinality({k \in 1..position :
           LabelledNeighbors(current_labels, protein_order[k]) # {}})

\* An iteration completed with a labelled protein without neighbours, with a
\* labelled protein whose neighbours hold no label, and with a change.
C19_Witness ==
    /\ Len(labels_log) >= 1
    /\ changes_log[1] > 0
    /\ \E p \in Proteins : graph[p] = {} /\ initial_labels[p] # {}
    /\ \E p \in Proteins :
          /\ graph[p] # {}
          /\ initial_labels[p] # {}
          /\ LabelledNeighbors(initial_labels, p) = {}
          /\ labels_log[1][p] = initial_labels[p]


\* C20: the label assignment eventually stabilises. The iteration is a
\* function of the assignment alone, over finitely many assignments, so it
\* stabilises exactly when no assignment comes back after an iteration that
\* changed a label set: whenever the assignment after iteration j is the
\* one before iteration i <= j, iteration i changed nothing.
C20_EventuallyStable ==
    \A i \in 1..Len(labels_log) : \A j \in i..Len(labels_log) :
        labels_log[j] = Before(i) => ChangedIn(i) = {}


(***************************************************************************)
(* Properties of the similarity computation                                *)
(***************************************************************************)
\* The edges obtained by scoring every unordered pair of the input directly:
\* those with a non-empty intersection and |A \cap B| / |A \cup B| at least
\* min_similarity, as (pair, shared domains, similarity).
AllPairsScored ==
    {[pair |-> {last_build.proteins_data[i].protein_id,
                last_build.proteins_data[j].protein_id},
      shared_domains |-> ToSet(last_build.proteins_data[i].domains)
                             \cap ToSet(last_build.proteins_data[j].domains),
      jaccard_similarity |->
          [num |-> Cardinality(ToSet(last_build.proteins_data[i].domains)
                        \cap ToSet(last_build.proteins_data[j].domains)),
           den |-> Cardinality(ToSet(last_build.proteins_data[i].domains)
                        \cup ToSet(last_build.proteins_data[j].domains))]] :
        <<i, j>> \in
            {pr \in (1..Len(last_build.proteins_data))
                        \X (1..Len(last_build.proteins_data)) :
                /\ pr[1] < pr[2]
                /\ ToSet(last_build.proteins_data[pr[1]].domains)
                       \cap ToSet(last_build.proteins_data[pr[2]].domains) # {}
                /\ Cardinality(ToSet(last_build.proteins_data[pr[1]].domains)
                       \cap ToSet(last_build.proteins_data[pr[2]].domains))
                       * last_build.min_similarity.den
                   >= last_build.min_similarity.num
                       * Cardinality(ToSet(last_build.proteins_data[pr[1]].domains)
                             \cup ToSet(last_build.proteins_data[pr[2]].domains))}}

\* C21: the edges returned by _compute_similarities, as (unordered pair,
\* shared domains, similarity), are exactly those obtained by scoring all
\* unordered pairs directly, and they are the edges the build writes to the
\* graph store.
C21_IndexEqualsBruteForce ==
    /\ BuildReturned =>
           {[pair |-> {e.source_protein_id, e.target_protein_id},
             shared_domains |-> e.shared_domains,
             jaccard_similarity |-> e.jaccard_similarity] :
                e \in ComputedEdges} = AllPairsScored
    /\ BuildWrote =>
           {[pair |-> {e.source, e.target},
             shared_domains |-> e.shared_domains,
             jaccard_similarity |-> e.jaccard_similarity] :
                e \in neo_edges} = AllPairsScored

\* A build with min_similarity 1/2 over two proteins that share one of two
\* domains: the one pair is scored 1/2 and kept.
C21_Witness ==
    /\ BuildWrote
    /\ last_build.min_similarity = Frac(1, 2)
    /\ Len(last_build.proteins_data) = 2
    /\ Len(last_build.edges) = 1
    /\ last_build.edges[1].jaccard_similarity = Frac(1, 2)
    /\ Cardinality(neo_edges) = 1


\* C22: every edge of _compute_similarities carries exactly the intersection
\* of its endpoints' domain sets as shared_domains (non-empty), its size as
\* shared_domain_count, and |shared| / |union| as jaccard_similarity, which
\* is at least min_similarity; and every pair of input proteins with a
\* non-empty intersection that meets the threshold has an edge.
C22_EdgeAttributes ==
    BuildReturned =>
        /\ \A e \in ComputedEdges :
              LET domains1 == DocDomains(e.source_protein_id)
                  domains2 == DocDomains(e.target_protein_id)
              IN  /\ e.shared_domains = domains1 \cap domains2
                  /\ e.shared_domains # {}
                  /\ e.shared_domain_count = Cardinality(e.shared_domains)
                  /\ e.jaccard_similarity.num = Cardinality(e.shared_domains)
                  /\ e.jaccard_similarity.den =
                         Cardinality(domains1 \cup domains2)
                  /\ e.weight = e.jaccard_similarity
                  /\ e.jaccard_similarity.num * last_build.min_similarity.den
                         >= last_build.min_similarity.num
                                * e.jaccard_similarity.den
        /\ \A i, j \in 1..Len(last_build.proteins_data) :
              LET domains1 == ToSet(last_build.proteins_data[i].domains)
                  domains2 == ToSet(last_build.proteins_data[j].domains)
              IN  (/\ i # j
                   /\ domains1 \cap domains2 # {}
                   /\ Cardinality(domains1 \cap domains2)
                          * last_build.min_similarity.den
                      >= last_build.min_similarity.num
                          * Cardinality(domains1 \cup domains2))
                  => \E e \in ComputedEdges :
                        {e.source_protein_id, e.target_protein_id} =
                            {last_build.proteins_data[i].protein_id,
                             last_build.proteins_data[j].protein_id}

\* An edge of similarity 1/2 between a protein whose domain rows repeat one
\* domain and a protein with two domains.
C22_Witness ==
    /\ BuildReturned
    /\ Len(last_build.edges) = 1
    /\ last_build.edges[1].jaccard_similarity = Frac(1, 2)
    /\ last_build.edges[1].shared_domain_count = 1
    /\ \E i \in 1..Len(last_build.proteins_data) :
          /\ Len(last_build.proteins_data[i].domains) = 2
          /\ Cardinality(ToSet(last_build.proteins_data[i].domains)) = 1


\* C23: the domain index has one bucket per domain held by some input
\* protein, and the bucket of d lists exactly the input proteins whose
\* domain set contains d, each once, whatever the repetitions in the
\* proteins' domain rows; a protein without domains is in no bucket.
C23_DomainIndexExact ==
    BuildWrote =>
        LET idx == last_build.domain_index
            data == last_build.proteins_data
            holders(d) == {data[i].protein_id :
                              i \in {k \in 1..Len(data) :
                                        d \in ToSet(data[k].domains)}}
        IN  /\ DOMAIN idx = UNION {ToSet(data[i].domains) : i \in 1..Len(data)}
            /\ \A d \in DOMAIN idx :
                  /\ {idx[d][i] : i \in 1..Len(idx[d])} = holders(d)
                  /\ Len(idx[d]) = Cardinality(holders(d))
            /\ \A i \in 1..Len(data) :
                  data[i].domains = << >> =>
                      \A d \in DOMAIN idx :
                          \A k \in 1..Len(idx[d]) :
                              idx[d][k] # data[i].protein_id

\* The index of a protein whose two domain rows repeat one domain, built
\* together with a protein without domains.
C23_Witness ==
    /\ BuildWrote
    /\ Len(last_build.proteins_data) = 2
    /\ last_build.proteins_data[1].domains = <<"d1", "d1">>
    /\ last_build.proteins_data[2].domains = << >>
    /\ DOMAIN last_build.domain_index = {"d1"}
    /\ Len(last_build.domain_index["d1"]) = 1


(***************************************************************************)
(* Further properties of the evaluation                                    *)
(***************************************************************************)
\* The labels the propagation of the last request returned.
PropagatedLabels == last_run.final_labels

\* C24: an evaluation propagates over the stored graph with the labels of
\* the held-out proteins emptied, with max_iterations = 100 and threshold
\* = 0.01; a held-out protein is a prediction iff its propagated label set
\* is non-empty and correct iff that set meets its stored labels; accuracy
\* is correct / predictions, and 0 without predictions.
C24_MaskedRunAndAccuracy ==
    (Evaluated /\ response.status_code = 200
               /\ SeedLabelled(response.attribute) # {}) =>
        LET m == response.body
            stored == store_labels[QueryProperty(response.attribute)]
            predicted == {p \in m.holdout_proteins : PropagatedLabels[p] # {}}
            correct == {p \in predicted : PropagatedLabels[p] \cap stored[p] # {}}
        IN  /\ last_run.max_iterations = 100
            /\ last_run.threshold = [num |-> 1, den |-> 100]
            /\ last_run.graph = store_graph
            /\ \A p \in DOMAIN store_graph :
                   last_run.initial_labels[p] =
                       IF p \in m.holdout_proteins THEN {} ELSE stored[p]
            /\ m.total_predictions = Cardinality(predicted)
            /\ m.correct_predictions = Cardinality(correct)
            /\ IF m.total_predictions = 0
               THEN m.accuracy.num = 0
               ELSE m.accuracy.num * m.total_predictions
                        = m.correct_predictions * m.accuracy.den
            /\ m.accuracy.den > 0

\* An evaluation with two predictions of which one is correct, and whose
\* correct prediction holds more labels than the original.
C24_Witness ==
    /\ Evaluated
    /\ response.status_code = 200
    /\ SeedLabelled(response.attribute) # {}
    /\ response.body.total_predictions = 2
    /\ response.body.correct_predictions = 1
    /\ response.body.accuracy = [num |-> 1, den |-> 2]


(***************************************************************************)
(* Further properties of the annotation requests                           *)
(***************************************************************************)
\* The attribute a propagation request does not propagate.
OtherAttribute(attribute) == IF attribute = "ec" THEN "go" ELSE "ec"

\* Its field in a document of the document store.
OtherField(attribute) == IF attribute = "ec" THEN "go_terms" ELSE "ec_numbers"

\* C25: a propagation request for "ec" (resp. "go") leaves the go labels
\* (resp. ec labels) of every protein as they were, in the graph store and in
\* the document store.
C25_OtherAttributeUntouched ==
    [][(served' # served /\ response'.op = "propagate"
                         /\ response'.attribute \in {"ec", "go"}) =>
          /\ store_labels'[OtherAttribute(response'.attribute)]
                 = store_labels[OtherAttribute(response'.attribute)]
          /\ DOMAIN doc_labels' = DOMAIN doc_labels
          /\ \A p \in DOMAIN doc_labels :
                 doc_labels'[p][OtherField(response'.attribute)]
                     = doc_labels[p][OtherField(response'.attribute)]]_vars


(***************************************************************************)
(* Further properties of _label_propagation                                *)
(***************************************************************************)
\* C26: a protein whose label set is non-empty before an iteration has a
\* non-empty label set after it; every seed-labelled protein is returned
\* with a non-empty label set and scored 1.0, and only proteins without seed
\* labels are scored 0.0.
C26_NonEmptinessKept ==
    /\ \A i \in 1..Len(labels_log) : \A p \in Proteins :
           Before(i)[p] # {} => labels_log[i][p] # {}
    /\ lp_pc \in {"done", "scored"} =>
           \A p \in Proteins :
               initial_labels[p] # {} => result.final_labels[p] # {}
    /\ lp_pc = "scored" =>
           \A p \in Proteins :
               /\ initial_labels[p] # {} => confidence_scores[p] = "1.0"
               /\ confidence_scores[p] = "0.0" => initial_labels[p] = {}

\* A scored run in which a seed-labelled protein was returned with other
\* labels than its seeds, next to a protein scored 0.0.
C26_Witness ==
    /\ lp_pc = "scored"
    /\ \E p \in Proteins :
          /\ initial_labels[p] # {}
          /\ result.final_labels[p] \cap initial_labels[p] = {}
          /\ confidence_scores[p] = "1.0"
    /\ \E p \in Proteins : confidence_scores[p] = "0.0"


\* The labels held by at least one protein of an assignment.
LabelsPresent(cur) == UNION {cur[p] : p \in DOMAIN cur}

\* C27: on a symmetric neighbour relation every label held by some protein
\* before an iteration is held by some protein after it, and the labels
\* present in the returned assignment are exactly the seed labels.
C27_NoLabelVanishes ==
    /\ \A i \in 1..Len(labels_log) :
           LabelsPresent(labels_log[i]) = LabelsPresent(Before(i))
    /\ lp_pc \in {"done", "scored"} =>
           LabelsPresent(result.final_labels) = LabelsPresent(initial_labels)

\* A returned run in which a protein lost a seed label that no other protein
\* held at the start.
C27_Witness ==
    /\ lp_pc \in {"done", "scored"}
    /\ \E p \in Proteins : \E l \in initial_labels[p] :
          /\ l \notin result.final_labels[p]
          /\ \A q \in Proteins \ {p} : l \notin initial_labels[q]


\* C28: when the run returns converged = TRUE and threshold <= 1/N, N the
\* number of proteins, the last iteration changed no protein and one more
\* iteration over the returned assignment would change nothing.
C28_ConvergedIsFixedPoint ==
    (/\ lp_pc \in {"done", "scored"}
     /\ result.converged
     /\ threshold.num * Cardinality(DOMAIN graph) <= threshold.den) =>
        /\ changes_log[Len(changes_log)] = 0
        /\ ChangedIn(Len(labels_log)) = {}
        /\ result.final_labels = labels_log[Len(labels_log)]
        /\ \A p \in DOMAIN graph :
               NewLabelSet(graph, result.final_labels, p)
                   = result.final_labels[p]

\* A run with threshold 1/100 that converged in its third iteration, after
\* two iterations that changed label sets.
C28_Witness ==
    /\ lp_pc = "done"
    /\ result.converged
    /\ threshold = Frac(1, 100)
    /\ result.iterations = 3
    /\ changes_log[1] > 0
    /\ changes_log[2] > 0


\* C29: an evaluation and a statistics report write to no store: the graph
\* store and the document store hold the same labels after the request as
\* before it, and the request issues no write operation.
C29_EvaluationAndStatisticsReadOnly ==
    [][(served' # served /\ response'.op \in {"evaluate", "statistics"}) =>
          /\ store_labels' = store_labels
          /\ store_graph' = store_graph
          /\ doc_labels' = doc_labels
          /\ \A i \in 1..Len(store_calls') :
                 store_calls'[i].op \notin {"update_protein_labels",
                                            "update_protein_annotations"}]_vars

\* An evaluation that masked a seed-labelled protein, propagated and made a
\* prediction for it.
C29_Witness ==
    /\ response.op = "evaluate"
    /\ response.status_code = 200
    /\ last_run # NoRun
    /\ response.body.total_predictions >= 1
    /\ \E p \in response.body.holdout_proteins :
          /\ last_run.initial_labels[p] = {}
          /\ store_labels[QueryProperty(response.attribute)][p] # {}


\* C30: after a successful propagation the graph store holds, for every
\* protein of the snapshot, exactly predicted_labels[protein] as the labels
\* of the propagated attribute; predicted_labels and confidence_scores have
\* one entry per protein of the snapshot, and annotated_proteins is the
\* number of proteins with a non-empty predicted label set.
C30_StoreMatchesResult ==
    (response.op = "propagate" /\ response.status_code = 200) =>
        LET body == response.body
        IN  /\ DOMAIN body.predicted_labels = DOMAIN store_graph
            /\ DOMAIN body.confidence_scores = DOMAIN store_graph
            /\ \A p \in DOMAIN store_graph :
                   store_labels[QueryProperty(response.attribute)][p]
                       = body.predicted_labels[p]
            /\ body.annotated_proteins =
                   Cardinality({p \in DOMAIN store_graph :
                                   body.predicted_labels[p] # {}})

\* A successful propagation that replaced the seed labels of a protein by
\* other labels and left another protein without labels.
C30_Witness ==
    /\ response.op = "propagate"
    /\ response.status_code = 200
    /\ response.body.annotated_proteins = 2
    /\ Cardinality(DOMAIN store_graph) = 3
    /\ \E p \in DOMAIN store_graph :
          /\ last_run.initial_labels[p] # {}
          /\ response.body.predicted_labels[p] \cap last_run.initial_labels[p]
                 = {}

==========================================================================
